---- MODULE Spec2Model ----
(***************************************************************************)
(* Weekly turn-resolution engine of the founders-dilemma game.             *)
(*                                                                         *)
(* Numbers: every f64 statistic is kept as an integer number of            *)
(* thousandths (morale 80.0 is 80000, velocity 1.0 is 1000); money (bank,  *)
(* burn, mrr, deal sizes) is kept in whole dollars; wau, week, cooldowns   *)
(* and durations are the integers of the source.  u8 arithmetic keeps its  *)
(* width.  Every random draw of the source is an input of the action that  *)
(* makes it.                                                               *)
(***************************************************************************)
EXTENDS Integers, Sequences, FiniteSets, TLC

VARIABLES state, ret, pre, obs

vars == <<state, ret, pre, obs>>

(***************************************************************************)
(* Arithmetic helpers                                                      *)
(***************************************************************************)
Min(a, b) == IF a < b THEN a ELSE b

Max(a, b) == IF a > b THEN a ELSE b

\* f64::clamp
Clamp(x, lo, hi) == IF x < lo THEN lo ELSE IF x > hi THEN hi ELSE x

\* a * b / c on thousandths
MulDiv(a, b, c) == (a * b) \div c

\* `x as i8' / `x as u32' of a float kept in thousandths: truncation toward zero
TruncToInt(x) == IF x >= 0 THEN x \div 1000 ELSE -((-x) \div 1000)

U8(x) == x % 256

Infinity == 2000000000

\* rng.gen_range(lo..hi) with the unit draw u (thousandths, 0 <= u < 1000)
GenRange(lo, hi, u) == lo + ((hi - lo) * u) \div 1000

\* rng.gen_bool(p): certain for p at the ends, otherwise the coin decides
GenBool(p, coin) == IF p <= 0 THEN FALSE ELSE IF p >= 1000 THEN TRUE ELSE coin

RECURSIVE SumRange(_, _, _)
\* q[lo] + ... + q[hi]
SumRange(q, lo, hi) ==
    IF lo > hi THEN 0
    ELSE IF lo = hi THEN q[lo]
    ELSE SumRange(q, lo, (lo + hi) \div 2) + SumRange(q, (lo + hi) \div 2 + 1, hi)

SeqToSet(q) == {q[i] : i \in 1..Len(q)}

(***************************************************************************)
(* Difficulty modes (state.rs) and the event difficulty modifier, tenths   *)
(***************************************************************************)
starting_bank(d) ==
    CASE d = "IndieBootstrap" -> 50000
      [] d = "VCTrack" -> 1000000
      [] d = "RegulatedFintech" -> 500000
      [] d = "InfraDevTool" -> 300000

\* the venture track's burn for every difficulty
VentureBurn(d) == 80000

starting_burn(d) ==
    CASE d = "IndieBootstrap" -> 8000
      [] d = "VCTrack" -> 80000
      [] d = "RegulatedFintech" -> 40000
      [] d = "InfraDevTool" -> 25000

difficulty_mod(d) ==
    CASE d = "IndieBootstrap" -> 10
      [] d = "VCTrack" -> 12
      [] d = "RegulatedFintech" -> 15
      [] d = "InfraDevTool" -> 13

\* x * difficulty_mod
Dm(x, dm) == (x * dm) \div 10

Eff(stat, change) == [stat_name |-> stat, change |-> change]

(***************************************************************************)
(* Event catalog of check_for_events (events_enhanced.rs)                  *)
(***************************************************************************)
EventIds ==
    <<"tech_debt_crisis", "viral_moment", "major_client_deal",
      "customer_churn_warning", "big_logo_signs", "customer_champion",
      "competitor_feature_launch", "pricing_war", "competitor_funding",
      "competitor_acquisition_opportunity", "talent_poaching", "competitor_pivot",
      "vc_offer", "key_employee_burnout", "competitor_launch",
      "pivot_opportunity", "acquisition_offer", "key_partnership",
      "team_conflict", "press_opportunity", "technical_rewrite",
      "competitor_acquisition", "regulatory_audit", "viral_moment_gone_wrong",
      "founder_health_crisis", "press_mention", "customer_testimonial",
      "competitor_failure", "talent_joins", "server_outage",
      "customer_complaint", "competitor_feature", "key_person_sick",
      "market_shift", "new_regulation", "industry_trend">>

CooldownWeeks(id) ==
    CASE id = "tech_debt_crisis" -> 8
      [] id = "viral_moment" -> 12
      [] id = "major_client_deal" -> 10
      [] id = "customer_churn_warning" -> 6
      [] id = "big_logo_signs" -> 8
      [] id = "customer_champion" -> 10
      [] id = "competitor_feature_launch" -> 8
      [] id = "pricing_war" -> 10
      [] id = "competitor_funding" -> 12
      [] id = "competitor_acquisition_opportunity" -> 16
      [] id = "talent_poaching" -> 10
      [] id = "competitor_pivot" -> 20
      [] id = "vc_offer" -> 16
      [] id = "key_employee_burnout" -> 12
      [] id = "competitor_launch" -> 6
      [] id = "pivot_opportunity" -> 16
      [] id = "acquisition_offer" -> 20
      [] id = "key_partnership" -> 12
      [] id = "team_conflict" -> 10
      [] id = "press_opportunity" -> 14
      [] id = "technical_rewrite" -> 18
      [] id = "competitor_acquisition" -> 15
      [] id = "regulatory_audit" -> 12
      [] id = "viral_moment_gone_wrong" -> 10
      [] id = "founder_health_crisis" -> 20
      [] id = "press_mention" -> 4
      [] id = "customer_testimonial" -> 6
      [] id = "competitor_failure" -> 8
      [] id = "talent_joins" -> 10
      [] id = "server_outage" -> 3
      [] id = "customer_complaint" -> 5
      [] id = "competitor_feature" -> 7
      [] id = "key_person_sick" -> 9
      [] id = "market_shift" -> 12
      [] id = "new_regulation" -> 15
      [] id = "industry_trend" -> 10

IsDilemma(id) ==
    id \in {"tech_debt_crisis", "viral_moment", "major_client_deal",
            "customer_churn_warning", "big_logo_signs", "customer_champion",
            "competitor_feature_launch", "pricing_war", "competitor_funding",
            "competitor_acquisition_opportunity", "talent_poaching", "vc_offer",
            "key_employee_burnout", "pivot_opportunity", "acquisition_offer",
            "key_partnership", "team_conflict", "press_opportunity",
            "technical_rewrite", "competitor_acquisition", "regulatory_audit",
            "viral_moment_gone_wrong", "founder_health_crisis"}

EventChoices(id, s, dm, x) ==
    CASE id = "tech_debt_crisis" ->
           <<<<Eff("Morale", Dm(-15000, dm)), Eff("Reputation", Dm(-10000, dm)), Eff("Velocity", Dm(-150, dm))>>,
             <<Eff("Morale", Dm(-5000, dm)), Eff("Tech Debt", Dm(-10000, dm)), Eff("Reputation", Dm(5000, dm)), Eff("WAU", Dm(-50000, dm))>>>>
      [] id = "viral_moment" ->
           <<<<Eff("WAU", Dm(5000000, dm)), Eff("Burn", Dm(2000, dm)), Eff("Reputation", Dm(15000, dm))>>,
             <<Eff("WAU", Dm(2000000, dm)), Eff("Reputation", Dm(-5000, dm))>>>>
      [] id = "major_client_deal" ->
           <<<<Eff("MRR", Dm(x.deal_size, dm)), Eff("Morale", Dm(-20000, dm)), Eff("Tech Debt", Dm(25000, dm)), Eff("Reputation", Dm(10000, dm))>>,
             <<Eff("MRR", Dm(MulDiv(x.deal_size, 600, 1000), dm)), Eff("Morale", Dm(5000, dm)), Eff("Tech Debt", Dm(-5000, dm))>>>>
      [] id = "customer_churn_warning" ->
           <<<<Eff("Morale", Dm(5000, dm)), Eff("NPS", Dm(5000, dm))>>,
             <<Eff("Focus", Dm(1000, dm)), Eff("MRR", Dm(-x.customer_mrr, dm))>>>>
      [] id = "big_logo_signs" ->
           <<<<Eff("Reputation", Dm(15000, dm)), Eff("Focus", Dm(-1000, dm))>>,
             <<Eff("Reputation", Dm(5000, dm))>>,
             <<Eff("NPS", Dm(3000, dm))>>>>
      [] id = "customer_champion" ->
           <<<<Eff("Reputation", Dm(20000, dm)), Eff("WAU", Dm(300000, dm)), Eff("NPS", Dm(15000, dm))>>,
             <<Eff("Reputation", Dm(8000, dm)), Eff("NPS", Dm(5000, dm))>>,
             <<Eff("NPS", Dm(8000, dm))>>>>
      [] id = "competitor_feature_launch" ->
           <<<<Eff("Tech Debt", Dm(15000, dm)), Eff("Velocity", Dm(200, dm)), Eff("Morale", Dm(-5000, dm))>>,
             <<Eff("Velocity", Dm(100, dm)), Eff("Morale", Dm(-10000, dm)), Eff("Reputation", Dm(-5000, dm))>>,
             <<Eff("Morale", Dm(10000, dm)), Eff("Reputation", Dm(5000, dm))>>>>
      [] id = "pricing_war" ->
           <<<<Eff("MRR", Dm(MulDiv(s.mrr, -200, 1000), dm)), Eff("NPS", Dm(5000, dm)), Eff("Reputation", Dm(-10000, dm))>>,
             <<Eff("Reputation", Dm(10000, dm)), Eff("Churn Rate", Dm(10000, dm)), Eff("Morale", Dm(5000, dm))>>,
             <<Eff("MRR", Dm(MulDiv(s.mrr, 150, 1000), dm)), Eff("Churn Rate", Dm(-20000, dm)), Eff("Reputation", Dm(15000, dm))>>>>
      [] id = "competitor_funding" ->
           <<<<Eff("Reputation", Dm(10000, dm)), Eff("Morale", Dm(-5000, dm))>>,
             <<Eff("Morale", Dm(15000, dm)), Eff("Reputation", Dm(-10000, dm)), Eff("Velocity", Dm(100, dm))>>,
             <<Eff("Morale", Dm(5000, dm))>>>>
      [] id = "competitor_acquisition_opportunity" ->
           <<<<Eff("Reputation", Dm(20000, dm)), Eff("Morale", Dm(-10000, dm))>>,
             <<Eff("Morale", Dm(15000, dm)), Eff("Reputation", Dm(10000, dm))>>,
             <<>>>>
      [] id = "talent_poaching" ->
           <<<<Eff("Burn", Dm(MulDiv(s.burn, 300, 1000), dm)), Eff("Morale", Dm(10000, dm))>>,
             <<Eff("Morale", Dm(5000, dm)), Eff("Velocity", Dm(100, dm))>>,
             <<Eff("Morale", Dm(-20000, dm)), Eff("Velocity", Dm(-200, dm)), Eff("Burn", Dm(MulDiv(s.burn, -100, 1000), dm))>>>>
      [] id = "vc_offer" ->
           <<<<Eff("Bank", Dm(2000000, dm)), Eff("Founder Equity", Dm(-20000, dm)), Eff("Burn", Dm(MulDiv(s.burn, 2000, 1000), dm)), Eff("Reputation", Dm(15000, dm))>>,
             <<Eff("Morale", Dm(10000, dm)), Eff("Focus", Dm(1000, dm))>>>>
      [] id = "key_employee_burnout" ->
           <<<<Eff("Morale", Dm(-15000, dm)), Eff("Velocity", Dm(-200, dm)), Eff("Reputation", Dm(-10000, dm))>>,
             <<Eff("Morale", Dm(25000, dm)), Eff("Velocity", Dm(-100, dm)), Eff("Reputation", Dm(5000, dm))>>>>
      [] id = "pivot_opportunity" ->
           <<<<Eff("WAU", Dm(-(s.wau * 500), dm)), Eff("Reputation", Dm(50000, dm)), Eff("Morale", Dm(-20000, dm))>>,
             <<Eff("Focus", Dm(1000, dm)), Eff("Reputation", Dm(-10000, dm))>>>>
      [] id = "acquisition_offer" ->
           <<<<Eff("Game End", 1000)>>,
             <<Eff("Morale", Dm(20000, dm)), Eff("Reputation", Dm(15000, dm))>>>>
      [] id = "key_partnership" ->
           <<<<Eff("MRR", Dm(20000, dm)), Eff("Founder Equity", Dm(-30000, dm))>>,
             <<Eff("MRR", Dm(8000, dm))>>>>
      [] id = "team_conflict" ->
           <<<<Eff("Velocity", Dm(100, dm)), Eff("MRR", Dm(-5000, dm))>>,
             <<Eff("MRR", Dm(5000, dm)), Eff("Tech Debt", Dm(15000, dm))>>,
             <<Eff("Morale", Dm(-15000, dm)), Eff("Focus", Dm(-1000, dm))>>>>
      [] id = "press_opportunity" ->
           <<<<Eff("Reputation", Dm(30000, dm)), Eff("WAU", Dm(500000, dm)), Eff("Focus", Dm(-2000, dm))>>,
             <<Eff("Reputation", Dm(-5000, dm)), Eff("Velocity", Dm(100, dm))>>>>
      [] id = "technical_rewrite" ->
           <<<<Eff("Tech Debt", Dm(-60000, dm)), Eff("WAU Growth", Dm(-40000, dm))>>,
             <<Eff("Tech Debt", Dm(-30000, dm)), Eff("Velocity", Dm(-100, dm))>>,
             <<Eff("Tech Debt", Dm(5000, dm))>>>>
      [] id = "competitor_acquisition" ->
           <<<<Eff("WAU", Dm(500000, dm)), Eff("Bank", Dm(-100000, dm)), Eff("Burn", Dm(15000, dm)), Eff("Tech Debt", Dm(20000, dm))>>,
             <<Eff("WAU Growth", Dm(-10000, dm))>>>>
      [] id = "regulatory_audit" ->
           <<<<Eff("Compliance Risk", Dm(-50000, dm)), Eff("Bank", Dm(-30000, dm)), Eff("Focus", Dm(-3000, dm))>>,
             <<Eff("Compliance Risk", Dm(-20000, dm)), Eff("Bank", Dm(-10000, dm))>>>>
      [] id = "viral_moment_gone_wrong" ->
           <<<<Eff("Bank", Dm(-50000, dm))>>,
             <<Eff("WAU", Dm(-(s.wau * 400), dm)), Eff("Reputation", Dm(-25000, dm))>>>>
      [] id = "founder_health_crisis" ->
           <<<<Eff("Morale", Dm(40000, dm)), Eff("MRR", Dm(-10000, dm))>>,
             <<Eff("Burnout Risk", 50000)>>>>
      [] OTHER -> <<>>

AutomaticEffects(id, dm) ==
    CASE id = "competitor_pivot" ->
           <<Eff("Morale", Dm(10000, dm)), Eff("Reputation", Dm(5000, dm))>>
      [] id = "competitor_launch" ->
           <<Eff("WAU Growth", Dm(-5000, dm)), Eff("Morale", Dm(-5000, dm))>>
      [] id = "press_mention" ->
           <<Eff("Reputation", Dm(5000, dm)), Eff("WAU", Dm(50000, dm))>>
      [] id = "customer_testimonial" ->
           <<Eff("NPS", Dm(10000, dm)), Eff("Reputation", Dm(3000, dm))>>
      [] id = "competitor_failure" ->
           <<Eff("WAU", Dm(200000, dm)), Eff("Morale", Dm(5000, dm))>>
      [] id = "talent_joins" ->
           <<Eff("Velocity", Dm(150, dm)), Eff("Morale", Dm(8000, dm))>>
      [] id = "server_outage" ->
           <<Eff("Reputation", Dm(-5000, dm)), Eff("WAU", Dm(-20000, dm))>>
      [] id = "customer_complaint" ->
           <<Eff("NPS", Dm(-8000, dm)), Eff("Reputation", Dm(-3000, dm))>>
      [] id = "competitor_feature" ->
           <<Eff("Churn Rate", Dm(2000, dm)), Eff("Morale", Dm(-3000, dm))>>
      [] id = "key_person_sick" ->
           <<Eff("Velocity", Dm(-100, dm)), Eff("Morale", Dm(-2000, dm))>>
      [] id = "market_shift" ->
           <<Eff("Tech Debt", Dm(5000, dm)), Eff("Morale", Dm(-2000, dm))>>
      [] id = "new_regulation" ->
           <<Eff("Compliance Risk", Dm(10000, dm))>>
      [] id = "industry_trend" ->
           <<Eff("Reputation", Dm(2000, dm))>>
      [] OTHER -> <<>>
\* Events whose trigger also reads customer or competitor records, which are
\* not fields of GameState (state.rs:132-184); their lookup is an input.
ExternalEvents ==
    {"customer_churn_warning", "big_logo_signs", "customer_champion",
     "competitor_feature_launch", "pricing_war", "competitor_funding",
     "competitor_acquisition_opportunity", "talent_poaching", "competitor_pivot"}

\* state.history.len() >= 8 && last 8 snapshots all momentum < 0.03
growth_stagnant(s) ==
    /\ Len(s.history) >= 8
    /\ \A i \in (Len(s.history) - 7)..Len(s.history) : s.history[i].momentum < 30

\* only the newest snapshot looked at
LastWeekLow(s) == s.history[Len(s.history)].morale < 30000

\* state.history.iter().rev().take(4).all(|s| s.morale < 30.0)
morale_low_weeks(s) ==
    \A i \in Max(1, Len(s.history) - 3)..Len(s.history) : s.history[i].morale < 30000

\* The GameState part of each event's trigger condition
Prerequisite(id, s) ==
    CASE id = "tech_debt_crisis" -> s.tech_debt > 70000
      [] id = "viral_moment" -> s.nps > 60000 /\ s.tech_debt < 35000 /\ s.wau > 200
      [] id = "major_client_deal" -> s.mrr > 2000 /\ s.reputation > 50000
      [] id = "competitor_feature_launch" -> s.velocity < 1000
      [] id = "competitor_acquisition_opportunity" ->
           s.mrr > 50000 /\ s.reputation > 60000 /\ s.nps > 40000
      [] id = "talent_poaching" -> s.morale > 70000
      [] id = "vc_offer" ->
           s.runway_months > 18000 /\ s.wau > 500 /\ s.reputation > 60000
      [] id = "key_employee_burnout" -> s.morale < 50000 /\ s.week > 12
      [] id = "competitor_launch" -> s.week > 8
      [] id = "pivot_opportunity" -> growth_stagnant(s)
      [] id = "acquisition_offer" -> s.reputation > 70000 /\ s.mrr > 50000
      [] id = "key_partnership" -> s.reputation > 60000
      [] id = "team_conflict" -> s.morale < 60000 /\ s.team_size > 3
      [] id = "press_opportunity" -> s.wau > 1000 /\ s.reputation > 50000
      [] id = "technical_rewrite" -> s.tech_debt > 80000 /\ s.velocity < 500
      [] id = "competitor_acquisition" -> s.week > 20
      [] id = "regulatory_audit" ->
           s.difficulty = "RegulatedFintech" /\ s.compliance_risk > 60000
      [] id = "viral_moment_gone_wrong" -> s.wau_growth_rate > 30000
      [] id = "founder_health_crisis" -> morale_low_weeks(s)
      [] OTHER -> TRUE

(***************************************************************************)
(* GameState (state.rs)                                                    *)
(***************************************************************************)
HistoryCap == 52

ActionHistoryCap == 12

EscapeVelocityProgress_new ==
    [revenue_covers_burn |-> FALSE, growth_sustained |-> FALSE,
     customer_love |-> FALSE, founder_healthy |-> FALSE, streak_weeks |-> 0]

all_conditions_met(p) ==
    p.revenue_covers_burn /\ p.growth_sustained /\ p.customer_love /\ p.founder_healthy

\* the derived metrics without the clamps
DerivedWithoutClamps(s) ==
    [s EXCEPT !.runway_months = IF s.burn > 0 THEN (s.bank \div s.burn) * 1000 ELSE Infinity]

\* the clamps alone: runway_months and momentum keep their old values
ClampsOnly(s) ==
    [s EXCEPT !.morale = Clamp(s.morale, 0, 100000),
              !.reputation = Clamp(s.reputation, 0, 100000),
              !.nps = Clamp(s.nps, -100000, 100000),
              !.tech_debt = Clamp(s.tech_debt, 0, 100000),
              !.compliance_risk = Clamp(s.compliance_risk, 0, 100000),
              !.velocity = Clamp(s.velocity, 100, 3000),
              !.churn_rate = Clamp(s.churn_rate, 0, 100000)]

update_derived_metrics(s) ==
    LET runway == IF s.burn > 0
                  THEN (s.bank \div s.burn) * 1000
                       + (IF s.burn <= 2000000
                          THEN ((s.bank % s.burn) * 1000) \div s.burn
                          ELSE (s.bank % s.burn) \div (s.burn \div 1000))
                  ELSE Infinity
        \* (wau_growth_rate / 100 + 1) * velocity * (morale / 100), the factors
        \* taken to a tenth of a point so that the products stay in range
        mom == MulDiv(MulDiv((s.wau_growth_rate + 100000) \div 100, s.velocity, 1000),
                      s.morale \div 100, 1000)
    IN  [s EXCEPT !.runway_months = runway,
                  !.momentum = mom,
                  !.morale = Clamp(s.morale, 0, 100000),
                  !.reputation = Clamp(s.reputation, 0, 100000),
                  !.nps = Clamp(s.nps, -100000, 100000),
                  !.tech_debt = Clamp(s.tech_debt, 0, 100000),
                  !.compliance_risk = Clamp(s.compliance_risk, 0, 100000),
                  !.velocity = Clamp(s.velocity, 100, 3000),
                  !.churn_rate = Clamp(s.churn_rate, 0, 100000)]

WeekSnapshot(s) ==
    [week |-> s.week, bank |-> s.bank, mrr |-> s.mrr, burn |-> s.burn,
     wau |-> s.wau, morale |-> s.morale, reputation |-> s.reputation,
     momentum |-> s.momentum]

\* the snapshot appended and nothing evicted
SaveWithoutEviction(s) == [s EXCEPT !.history = Append(s.history, WeekSnapshot(s))]

save_snapshot(s) ==
    [s EXCEPT !.history = IF Len(s.history) + 1 > HistoryCap
                          THEN Tail(Append(s.history, WeekSnapshot(s)))
                          ELSE Append(s.history, WeekSnapshot(s))]

GameState_new(d) ==
    save_snapshot(update_derived_metrics(
        [week |-> 0, difficulty |-> d,
         bank |-> starting_bank(d), burn |-> starting_burn(d),
         runway_months |-> MulDiv(starting_bank(d), 1000, starting_burn(d)),
         focus_slots |-> 3,
         mrr |-> 0, wau |-> 100, wau_growth_rate |-> 0, churn_rate |-> 5000,
         morale |-> 80000, reputation |-> 50000, nps |-> 0,
         tech_debt |-> 10000, compliance_risk |-> 20000, velocity |-> 1000,
         founder_equity |-> 100000, momentum |-> 0,
         escape_velocity_progress |-> EscapeVelocityProgress_new,
         history |-> <<>>,
         unlocked_actions |-> <<"ShipFeature", "FounderLedSales", "Hire",
                                "Fundraise", "TakeBreak">>,
         active_market_conditions |-> <<>>,
         action_history |-> <<>>,
         event_cooldowns |-> [id \in {} |-> 0],
         team_size |-> 1, incident_count |-> 0]))

(***************************************************************************)
(* Market conditions (market_conditions.rs)                                *)
(***************************************************************************)
MarketEvents ==
    <<"BullMarket", "Recession", "CompetitorLaunch", "TechBoom",
      "RegulationChange", "TalentWar", "ViralTrend", "SupplyChainDisruption",
      "EconomicStimulus", "IndustryConsolidation", "TechCrunch", "DataBreachScare">>

NoCondition == [id |-> "None", duration_weeks |-> 0]

\* draw.roll is the 0.15 roll, draw.event the index drawn from the event list,
\* draw.dur the value of rng.gen_range(0..5)
generate_market_condition(draw) ==
    IF ~draw.roll THEN NoCondition
    ELSE [id |-> MarketEvents[draw.event + 1], duration_weeks |-> 4 + draw.dur]

NoDraw == [roll |-> FALSE, event |-> 0, dur |-> 0]

update_market_conditions(s) ==
    LET dec(c) == IF c.duration_weeks > 0
                  THEN [c EXCEPT !.duration_weeks = c.duration_weeks - 1] ELSE c
        aged == [i \in 1..Len(s.active_market_conditions) |->
                    dec(s.active_market_conditions[i])]
        live(c) == c.duration_weeks > 0
    IN  [s EXCEPT !.active_market_conditions = SelectSeq(aged, live)]

push_condition(s, draw) ==
    IF generate_market_condition(draw) = NoCondition THEN s
    ELSE [s EXCEPT !.active_market_conditions =
                       Append(s.active_market_conditions, generate_market_condition(draw))]

get_active_conditions(s) == s.active_market_conditions

\* state.rs:308-327: week, bank, wau, growth rate, morale decay, debt creep
WeeklyEconomy(s) ==
    [s EXCEPT !.week = s.week + 1,
              !.bank = s.bank - (s.burn \div 4) + (s.mrr \div 4),
              !.wau = Max(0, s.wau + MulDiv(s.wau, s.wau_growth_rate, 100000)),
              !.wau_growth_rate =
                  IF s.wau > 0
                  THEN MulDiv(Max(0, s.wau + MulDiv(s.wau, s.wau_growth_rate, 100000)) - s.wau,
                              100000, s.wau)
                  ELSE s.wau_growth_rate,
              !.morale = s.morale - 500,
              !.tech_debt = IF s.velocity > 1200 THEN s.tech_debt + 500 ELSE s.tech_debt]

\* the incident roll alone: the action log is never trimmed
IncidentOnly(s, incident) ==
    [s EXCEPT !.incident_count =
                  IF s.tech_debt > 80000 /\ incident
                  THEN s.incident_count + 1 ELSE s.incident_count]

\* state.rs:344-356: action_history cap and the incident roll
CapAndIncident(s, incident) ==
    [s EXCEPT !.action_history =
                  IF Len(s.action_history) > ActionHistoryCap
                  THEN Tail(s.action_history) ELSE s.action_history,
              !.incident_count =
                  IF s.tech_debt > 80000 /\ incident
                  THEN s.incident_count + 1 ELSE s.incident_count]

\* the week advanced and no snapshot saved
AdvanceWithoutSnapshot(s, d) ==
    update_derived_metrics(
        CapAndIncident(push_condition(update_market_conditions(WeeklyEconomy(s)), d.market),
                       d.incident))

\* advance_week; d.market is the market draw, d.incident the 0.1 incident roll
advance_week(s, d) ==
    save_snapshot(update_derived_metrics(
        CapAndIncident(push_condition(update_market_conditions(WeeklyEconomy(s)), d.market),
                       d.incident)))

(***************************************************************************)
(* Economy (economy.rs) and victory (victory.rs)                           *)
(***************************************************************************)
apply_churn(s) ==
    [s EXCEPT !.mrr = s.mrr - MulDiv(s.mrr, s.churn_rate, 400000)]

update_nps(s) ==
    LET debt_penalty == IF s.tech_debt > 70000 THEN -10000
                        ELSE IF s.tech_debt > 40000 THEN -5000 ELSE 0
        velocity_bonus == IF s.velocity > 1200 THEN 5000
                          ELSE IF s.velocity < 800 THEN -5000 ELSE 0
        target_nps == 30000 + velocity_bonus + debt_penalty
    IN  [s EXCEPT !.nps = MulDiv(s.nps, 9, 10) + MulDiv(target_nps, 1, 10)]

VictoryStreak == 12

\* victory one week late
VictoryAfterThirteen(s) == s.escape_velocity_progress.streak_weeks > VictoryStreak

check_victory(s) == s.escape_velocity_progress.streak_weeks >= VictoryStreak

\* defeat with the reputation bound taken strictly
DefeatBelowTen(s) ==
    IF s.bank <= 0 \/ s.runway_months <= 0 THEN "OutOfMoney"
    ELSE IF s.morale <= 0 THEN "FounderBurnout"
    ELSE IF s.reputation < 10000 THEN "ReputationDestroyed"
    ELSE "None"

check_defeat(s) ==
    IF s.bank <= 0 \/ s.runway_months <= 0 THEN "OutOfMoney"
    ELSE IF s.morale <= 0 THEN "FounderBurnout"
    ELSE IF s.reputation <= 10000 THEN "ReputationDestroyed"
    ELSE "None"

\* the streak counted up when the gates hold and left alone when they do not
KeepStreakOnFailure(s) ==
    IF s.mrr >= s.burn /\ s.wau_growth_rate >= 10000 /\ s.nps >= 30000 /\ s.morale > 40000
    THEN [s EXCEPT !.escape_velocity_progress.streak_weeks = U8(@ + 1)]
    ELSE s

\* streak_weeks is a u8: `+= 1' wraps at 256 in a release build
update_escape_velocity_progress(s) ==
    LET p == [s.escape_velocity_progress EXCEPT
                  !.revenue_covers_burn = s.mrr >= s.burn,
                  !.growth_sustained = s.wau_growth_rate >= 10000,
                  !.customer_love = s.nps >= 30000,
                  !.founder_healthy = s.morale > 40000]
    IN  [s EXCEPT !.escape_velocity_progress =
            [p EXCEPT !.streak_weeks = IF all_conditions_met(p)
                                       THEN U8(p.streak_weeks + 1) ELSE 0]]

(***************************************************************************)
(* Compounding bonuses (compounding.rs)                                    *)
(***************************************************************************)
\* every snapshot of the lookback window that satisfies the condition,
\* whether or not the run is broken
CountAllWeeks(history, max_lookback, condition) ==
    LET n == Len(history)
        lookback == Min(max_lookback, n)
    IN  Cardinality({i \in (n - lookback + 1)..n : condition[i]})

\* the run counted without the oldest snapshot of the window
SkipOldestWeek(history, max_lookback, condition) ==
    LET n == Len(history)
        lookback == Min(max_lookback, n)
        breaks == {i \in (n - lookback + 1)..n : ~condition[i] \/ i = n - lookback + 1}
    IN  IF breaks = {} THEN lookback
        ELSE n - (CHOOSE i \in breaks : \A j \in breaks : j <= i)

\* the newest snapshots of the lookback window that satisfy the condition,
\* counted from the newest backwards up to the first one that does not;
\* condition[i] is the closure applied to history[i]
count_consecutive_weeks(history, max_lookback, condition) ==
    LET n == Len(history)
        lookback == Min(max_lookback, n)
        breaks == {i \in (n - lookback + 1)..n : ~condition[i]}
    IN  IF breaks = {} THEN lookback
        ELSE n - (CHOOSE i \in breaks : \A j \in breaks : j <= i)

StatBonus(stat, amount, mult) ==
    [stat_name |-> stat, bonus_amount |-> amount, is_multiplier |-> mult]

\* (weeks / n).min(cap), thousandths
bonus_strength(weeks, n, cap) == Min(MulDiv(weeks, 1000, n), cap)

Bonus(id, bs) == [effect_id |-> id, bonuses |-> bs]

check_compounding_effects(s, history_weeks) ==
    LET momentum_ok(h) == h.momentum > 700
        reputation_ok(h) == h.reputation > 60000
        morale_high(h) == h.morale > 75000
        runway_ok(h) == IF h.burn > 0 THEN h.bank > 3 * h.burn
                        ELSE IF h.burn = 0 THEN h.bank > 0
                        ELSE h.bank < 3 * h.burn
        wau_ok(h) == h.wau >= 10
        morale_ok(h) == h.morale > 60000
        w1 == count_consecutive_weeks(s.history, history_weeks,
                  [i \in 1..Len(s.history) |-> momentum_ok(s.history[i])])
        w2 == count_consecutive_weeks(s.history, history_weeks,
                  [i \in 1..Len(s.history) |-> reputation_ok(s.history[i])])
        w3 == count_consecutive_weeks(s.history, history_weeks,
                  [i \in 1..Len(s.history) |-> morale_high(s.history[i])])
        w4 == count_consecutive_weeks(s.history, history_weeks,
                  [i \in 1..Len(s.history) |-> runway_ok(s.history[i])])
        w5 == count_consecutive_weeks(s.history, history_weeks,
                  [i \in 1..Len(s.history) |-> wau_ok(s.history[i])])
        w6 == count_consecutive_weeks(s.history, history_weeks,
                  [i \in 1..Len(s.history) |-> morale_ok(s.history[i])])
        b1 == IF s.tech_debt < 25000 /\ s.velocity > 800 /\ w1 >= 4
              THEN <<Bonus("engineering_excellence",
                       <<StatBonus("Velocity", MulDiv(50, bonus_strength(w1, 4, 2000), 1000), TRUE),
                         StatBonus("Morale", MulDiv(5000, bonus_strength(w1, 4, 2000), 1000), FALSE)>>)>>
              ELSE <<>>
        b2 == IF s.nps > 60000 /\ s.wau > 200 /\ w2 >= 6
              THEN <<Bonus("customer_love",
                       <<StatBonus("WAU Growth", MulDiv(3000, bonus_strength(w2, 6, 2000), 1000), FALSE),
                         StatBonus("Churn Rate", MulDiv(-2000, bonus_strength(w2, 6, 2000), 1000), FALSE)>>)>>
              ELSE <<>>
        b3 == IF s.morale > 75000 /\ w3 >= 8
              THEN <<Bonus("strong_culture",
                       <<StatBonus("Velocity", MulDiv(100, bonus_strength(w3, 8, 2000), 1000), TRUE),
                         StatBonus("Reputation", MulDiv(5000, bonus_strength(w3, 8, 2000), 1000), FALSE)>>)>>
              ELSE <<>>
        b4 == IF s.runway_months > 12000 /\ s.burn > 0 /\ 2 * s.mrr > s.burn /\ w4 >= 8
              THEN <<Bonus("financial_discipline",
                       <<StatBonus("Reputation", MulDiv(10000, bonus_strength(w4, 8, 2000), 1000), FALSE),
                         StatBonus("Morale", MulDiv(5000, bonus_strength(w4, 8, 2000), 1000), FALSE)>>)>>
              ELSE <<>>
        b5 == IF s.wau_growth_rate > 8000 /\ s.churn_rate < 8000 /\ w5 >= 6
              THEN <<Bonus("momentum_master",
                       <<StatBonus("WAU Growth", MulDiv(2000, bonus_strength(w5, 6, 2000), 1000), FALSE),
                         StatBonus("Reputation", MulDiv(8000, bonus_strength(w5, 6, 2000), 1000), FALSE)>>)>>
              ELSE <<>>
        b6 == IF s.morale > 65000 /\ s.velocity > 700 /\ w6 >= 10
              THEN <<Bonus("sustainable_pace",
                       <<StatBonus("Morale Decay", MulDiv(-300, bonus_strength(w6, 10, 1500), 1000), FALSE),
                         StatBonus("Velocity", MulDiv(50, bonus_strength(w6, 10, 1500), 1000), TRUE)>>)>>
              ELSE <<>>
    IN  b1 \o b2 \o b3 \o b4 \o b5 \o b6

apply_stat_bonus(s, b) ==
    CASE b.stat_name = "Velocity" ->
           [s EXCEPT !.velocity = IF b.is_multiplier
                                  THEN MulDiv(s.velocity, 1000 + b.bonus_amount, 1000)
                                  ELSE s.velocity + b.bonus_amount]
      [] b.stat_name = "Morale" -> [s EXCEPT !.morale = s.morale + b.bonus_amount]
      [] b.stat_name = "WAU Growth" ->
           [s EXCEPT !.wau_growth_rate = s.wau_growth_rate + b.bonus_amount]
      [] b.stat_name = "Churn Rate" ->
           [s EXCEPT !.churn_rate = s.churn_rate + b.bonus_amount]
      [] b.stat_name = "Reputation" ->
           [s EXCEPT !.reputation = s.reputation + b.bonus_amount]
      [] b.stat_name = "Morale Decay" ->
           [s EXCEPT !.morale = s.morale + 2 * (IF b.bonus_amount < 0
                                                THEN -b.bonus_amount ELSE b.bonus_amount)]
      [] OTHER -> s

RECURSIVE ApplyStatBonuses(_, _)
ApplyStatBonuses(s, bs) ==
    IF bs = <<>> THEN s ELSE ApplyStatBonuses(apply_stat_bonus(s, Head(bs)), Tail(bs))

RECURSIVE ApplyBonusList(_, _)
ApplyBonusList(s, bonuses) ==
    IF bonuses = <<>> THEN s
    ELSE ApplyBonusList(ApplyStatBonuses(s, Head(bonuses).bonuses), Tail(bonuses))

apply_compounding_bonuses(s, bonuses) ==
    update_derived_metrics(ApplyBonusList(s, bonuses))

(***************************************************************************)
(* Actions (actions.rs).  An action is [kind, variant, amount]; variant is *)
(* the enum parameter, amount the numeric one (call_count, target, hours,  *)
(* budget).                                                                *)
(***************************************************************************)
Act(k, v, n) == [kind |-> k, variant |-> v, amount |-> n]

\* format!("{:?}", action): the Debug text names the variant and every field
DebugFmt(a) == <<a.kind, a.variant, a.amount>>

focus_cost(a) ==
    CASE a.kind = "ShipFeature" -> 1
      [] a.kind = "RefactorCode" -> IF a.variant = "Deep" THEN 2 ELSE 1
      [] a.kind = "RunExperiment" -> 1
      [] a.kind = "FounderLedSales" -> 1
      [] a.kind = "ContentLaunch" -> 1
      [] a.kind = "DevRel" -> 2
      [] a.kind = "PaidAds" -> 1
      [] a.kind = "Hire" -> 2
      [] a.kind = "Coach" -> 1
      [] a.kind = "Fire" -> 1
      [] a.kind = "ComplianceWork" -> 1
      [] a.kind = "IncidentResponse" -> 2
      [] a.kind = "ProcessImprovement" -> 1
      [] a.kind = "Fundraise" -> 2
      [] a.kind = "TakeBreak" -> 1

\* `x as u32' of a float kept in thousandths
AsU32(x) == IF x <= 0 THEN 0 ELSE x \div 1000

\* base * (lo + random * span), all thousandths, u the unit draw
Vary(base, lo, span, u) == MulDiv(base, lo + MulDiv(span, u, 1000), 1000)

calculate_refactor_impact(depth, current_debt, r) ==
    LET base_reduction == CASE depth = "Surface" -> 10000
                            [] depth = "Medium" -> 20000
                            [] depth = "Deep" -> 35000
        debt_modifier == IF current_debt > 50000 THEN 1200 ELSE 1000
        gain == CASE depth = "Surface" -> 50
                  [] depth = "Medium" -> 120
                  [] depth = "Deep" -> 200
    IN  <<Vary(MulDiv(base_reduction, debt_modifier, 1000), 800, 400, r.u1),
          Vary(gain, 900, 200, r.u2)>>

calculate_content_reach(content_type, reputation, r) ==
    LET base_wau == CASE content_type = "BlogPost" -> 2000
                      [] content_type = "Tutorial" -> 4000
                      [] content_type = "CaseStudy" -> 3000
                      [] content_type = "Video" -> 5000
        rep_base == CASE content_type = "BlogPost" -> 2000
                      [] content_type = "Tutorial" -> 3000
                      [] content_type = "CaseStudy" -> 4000
                      [] content_type = "Video" -> 5000
    IN  <<Vary(MulDiv(base_wau, 800 + reputation \div 100, 1000), 800, 400, r.u1),
          Vary(rep_base, 900, 200, r.u2)>>

calculate_ad_effectiveness(channel, budget, market_saturation, r) ==
    LET base == CASE channel = "Google" -> 800
                  [] channel = "Social" -> 1000
                  [] channel = "Display" -> 600
                  [] channel = "Influencer" -> 1200
        eff == Vary(MulDiv(base, 1000 - market_saturation \div 100, 1000), 800, 400, r.u1)
    IN  MulDiv(eff, budget, 10000)

RECURSIVE SalesMrr(_, _, _)
\* the call loop of FounderLedSales: deals[i] = [hit, u] is the i-th call's
\* conversion roll and deal-size draw
SalesMrr(calls, conversion_rate, deals) ==
    IF calls = 0 THEN 0
    ELSE (IF GenBool(conversion_rate, deals[calls].hit)
          THEN MulDiv(500, 800 + GenRange(0, 400, deals[calls].u), 1000) ELSE 0)
         + SalesMrr(calls - 1, conversion_rate, deals)

\* a chance that leaves the reputation out
ChanceFromMomentum(s) == 300 + s.momentum \div 100

\* Fundraise: 0.3 + reputation / 200 + momentum / 100, in thousandths
fundraise_success_chance(s) == 300 + s.reputation \div 200 + s.momentum \div 100

\* a break that restores 10 points of morale, whatever the action
ShortBreak(s, a, r) ==
    [s EXCEPT !.morale = s.morale + 10000,
              !.wau_growth_rate = s.wau_growth_rate - 2000]

\* resolve_action; r holds the random draws of the call
resolve_action(s, a, r) ==
    CASE a.kind = "ShipFeature" ->
           LET wau_boost == CASE a.variant = "Quick" -> 3000 + GenRange(-1500, 1500, r.u1)
                              [] a.variant = "Balanced" -> 4000 + GenRange(-1500, 1500, r.u1)
                              [] a.variant = "Polish" -> 2000 + GenRange(-1000, 1000, r.u1)
               debt_change == CASE a.variant = "Quick" -> 6000 + GenRange(-2000, 2000, r.u2)
                                [] a.variant = "Balanced" -> 2000 + GenRange(-1000, 1000, r.u2)
                                [] a.variant = "Polish" -> -3000 + GenRange(-1000, 1000, r.u2)
               morale_change == CASE a.variant = "Quick" -> -1000 + GenRange(-500, 500, r.u3)
                                  [] a.variant = "Balanced" -> 1000 + GenRange(-500, 500, r.u3)
                                  [] a.variant = "Polish" -> 3000 + GenRange(-1000, 1000, r.u3)
           IN  [s EXCEPT !.wau = s.wau + MulDiv(s.wau, wau_boost, 100000),
                         !.tech_debt = s.tech_debt + debt_change,
                         !.morale = s.morale + morale_change,
                         !.velocity = 1000 - (s.tech_debt + debt_change) \div 200]
      [] a.kind = "FounderLedSales" ->
           [s EXCEPT !.mrr = s.mrr + SalesMrr(a.amount, 50 + s.reputation \div 200, r.deals),
                     !.morale = s.morale - a.amount * 500,
                     !.reputation = s.reputation + 1000]
      [] a.kind = "Hire" ->
           [s EXCEPT !.burn = s.burn + 10000,
                     !.velocity = s.velocity + 100,
                     !.morale = s.morale + 5000]
      [] a.kind = "Fundraise" ->
           LET success_chance == fundraise_success_chance(s)
           IN  IF GenBool(Clamp(success_chance, 0, 800), r.coin)
               THEN [s EXCEPT !.bank = s.bank + a.amount,
                              !.founder_equity = s.founder_equity - a.amount \div 250]
               ELSE [s EXCEPT !.morale = s.morale - 10000]
      [] a.kind = "RefactorCode" ->
           LET impact == calculate_refactor_impact(a.variant, s.tech_debt, r)
               cost == CASE a.variant = "Surface" -> 2000
                         [] a.variant = "Medium" -> 5000
                         [] a.variant = "Deep" -> 10000
           IN  [s EXCEPT !.tech_debt = s.tech_debt - impact[1],
                         !.velocity = s.velocity + impact[2],
                         !.morale = s.morale - Vary(cost, 900, 200, r.u3)]
      [] a.kind = "RunExperiment" ->
           IF ~GenBool(600, r.coin) THEN [s EXCEPT !.morale = s.morale - 2000]
           ELSE (CASE a.variant = "Pricing" ->
                        [s EXCEPT !.mrr = s.mrr + Vary(s.mrr \div 20, 800, 400, r.u1)]
                   [] a.variant = "Onboarding" ->
                        [s EXCEPT !.wau = AsU32(s.wau * 1000 + Vary(s.wau * 30, 800, 400, r.u1)),
                                  !.churn_rate = MulDiv(s.churn_rate, 95, 100)]
                   [] a.variant = "Channel" ->
                        [s EXCEPT !.reputation = s.reputation + Vary(5000, 800, 400, r.u1)])
      [] a.kind = "ContentLaunch" ->
           LET reach == calculate_content_reach(a.variant, s.reputation, r)
           IN  [s EXCEPT !.wau = AsU32(s.wau * 1000 + reach[1]),
                         !.reputation = s.reputation + reach[2]]
      [] a.kind = "DevRel" ->
           LET base == CASE a.variant = "Conference" -> 12000
                         [] a.variant = "Podcast" -> 8000
                         [] a.variant = "OpenSource" -> 6000
                         [] a.variant = "Workshop" -> 10000
               rep_gain == Vary(base, 900, 200, r.u1)
               wau_gain == Vary(rep_gain \div 2, 800, 400, r.u2)
           IN  [s EXCEPT !.reputation = s.reputation + rep_gain,
                         !.wau = AsU32(s.wau * 1000 + wau_gain),
                         !.morale = s.morale + Vary(5000, 900, 200, r.u3)]
      [] a.kind = "PaidAds" ->
           [s EXCEPT !.wau = AsU32(s.wau * 1000
                                   + calculate_ad_effectiveness(a.variant, a.amount, 20000, r)),
                     !.bank = s.bank - a.amount]
      [] a.kind = "Coach" ->
           LET velocity_boost == CASE a.variant = "Skills" -> 80
                                   [] a.variant = "Morale" -> 20
                                   [] a.variant = "Alignment" -> 50
                                   [] a.variant = "Performance" -> 100
               morale_boost == CASE a.variant = "Skills" -> 2000
                                 [] a.variant = "Morale" -> 8000
                                 [] a.variant = "Alignment" -> 4000
                                 [] a.variant = "Performance" -> 3000
           IN  [s EXCEPT !.velocity = s.velocity + Vary(velocity_boost, 900, 200, r.u1),
                         !.morale = s.morale + Vary(morale_boost, 900, 200, r.u2)]
      [] a.kind = "Fire" ->
           LET morale_hit == CASE a.variant = "Performance" -> -8000
                               [] a.variant = "Culture" -> -12000
                               [] a.variant = "Budget" -> -5000
               velocity_hit == CASE a.variant = "Performance" -> -50
                                 [] a.variant = "Culture" -> -80
                                 [] a.variant = "Budget" -> -20
           IN  [s EXCEPT !.burn = s.burn - Vary(8000, 800, 400, r.u1),
                         !.morale = s.morale + morale_hit,
                         !.velocity = s.velocity + velocity_hit]
      [] a.kind = "ComplianceWork" ->
           [s EXCEPT !.compliance_risk = s.compliance_risk - Vary(a.amount * 2000, 900, 200, r.u1),
                     !.morale = s.morale - Vary(a.amount * 300, 900, 200, r.u2)]
      [] a.kind = "IncidentResponse" ->
           [s EXCEPT !.reputation = s.reputation - Vary(5000, 800, 400, r.u1),
                     !.morale = s.morale - Vary(15000, 900, 200, r.u2)]
      [] a.kind = "ProcessImprovement" ->
           [s EXCEPT !.velocity = s.velocity + Vary(80, 900, 200, r.u1),
                     !.morale = s.morale + Vary(3000, 900, 200, r.u2)]
      [] a.kind = "TakeBreak" ->
           [s EXCEPT !.morale = s.morale + 15000,
                     !.wau_growth_rate = s.wau_growth_rate - 2000]

\* entries a key of unlocked_actions adds to the core list
UnlockedVariants(key) ==
    CASE key = "RefactorCode" -> <<Act("RefactorCode", "Surface", 0), Act("RefactorCode", "Deep", 0)>>
      [] key = "ContentLaunch" -> <<Act("ContentLaunch", "BlogPost", 0), Act("ContentLaunch", "Tutorial", 0)>>
      [] key = "Coach" -> <<Act("Coach", "Skills", 0)>>
      [] key = "RunExperiment" -> <<Act("RunExperiment", "Pricing", 0)>>
      [] key = "ComplianceWork" -> <<Act("ComplianceWork", "", 8)>>
      [] key = "DevRel" -> <<Act("DevRel", "Conference", 0)>>
      [] key = "PaidAds" -> <<Act("PaidAds", "Google", 20000)>>
      [] key = "ProcessImprovement" -> <<Act("ProcessImprovement", "", 0)>>
      [] key = "Fire" -> <<Act("Fire", "Performance", 0)>>
      [] key = "IncidentResponse" -> <<Act("IncidentResponse", "", 0)>>
      [] OTHER -> <<>>

CoreActions ==
    <<Act("ShipFeature", "Quick", 0), Act("ShipFeature", "Balanced", 0),
      Act("ShipFeature", "Polish", 0), Act("FounderLedSales", "", 3),
      Act("FounderLedSales", "", 5), Act("Hire", "", 0),
      Act("Fundraise", "", 250000), Act("Fundraise", "", 500000),
      Act("TakeBreak", "", 0)>>

RECURSIVE AddUnlocked(_, _)
AddUnlocked(available, keys) ==
    IF keys = <<>> THEN available
    ELSE AddUnlocked(available \o SelectSeq(UnlockedVariants(Head(keys)),
                                            LAMBDA a : a \notin SeqToSet(available)),
                     Tail(keys))

\* every action of the catalogue, whatever the state has unlocked
EverythingAvailable(s) ==
    AddUnlocked(CoreActions,
                <<"RefactorCode", "ContentLaunch", "Coach", "RunExperiment", "ComplianceWork",
                  "DevRel", "PaidAds", "ProcessImprovement", "Fire", "IncidentResponse">>)

get_available_actions(s) == AddUnlocked(CoreActions, s.unlocked_actions)

\* the variants without fields, whose Debug text is the bare variant name
UnitKinds == {"Hire", "IncidentResponse", "ProcessImprovement", "TakeBreak"}

\* the Debug text of the action is one of the stored keys
is_action_unlocked(s, a) ==
    a.kind \in UnitKinds /\ a.kind \in SeqToSet(s.unlocked_actions)

\* check_unlocks: the actions whose condition is met and whose key is not stored
check_unlocks(s) ==
    LET new(k) == k \notin SeqToSet(s.unlocked_actions)
    IN  (IF new("RefactorCode") /\ s.week >= 5 THEN <<"RefactorCode">> ELSE <<>>)
        \o (IF new("ContentLaunch") /\ s.week >= 5 THEN <<"ContentLaunch">> ELSE <<>>)
        \o (IF new("Coach") /\ s.week >= 5 THEN <<"Coach">> ELSE <<>>)
        \o (IF new("RunExperiment") /\ s.wau >= 500 THEN <<"RunExperiment">> ELSE <<>>)
        \o (IF new("ComplianceWork") /\ s.week >= 9 THEN <<"ComplianceWork">> ELSE <<>>)
        \o (IF new("DevRel") /\ s.week >= 13 THEN <<"DevRel">> ELSE <<>>)
        \o (IF new("PaidAds") /\ s.week >= 13 THEN <<"PaidAds">> ELSE <<>>)
        \o (IF new("ProcessImprovement") /\ s.week >= 13 THEN <<"ProcessImprovement">> ELSE <<>>)
        \o (IF new("Fire") /\ s.team_size >= 1 THEN <<"Fire">> ELSE <<>>)
        \o (IF new("IncidentResponse") /\ s.incident_count >= 1 THEN <<"IncidentResponse">> ELSE <<>>)

(***************************************************************************)
(* game/synergies.rs: the synergy catalogue, its detection and its bonuses *)
(* Additive amounts and multiplier fractions are kept in thousandths.      *)
(***************************************************************************)
\* get_action_type: the variant of the action, its parameters dropped
get_action_type(a) == a.kind

SynergyBonus(stat_name, bonus_amount, is_multiplier) ==
    [stat_name |-> stat_name, bonus_amount |-> bonus_amount, is_multiplier |-> is_multiplier]

ActionSynergy(id, required_actions, bonus_effects) ==
    [id |-> id, required_actions |-> required_actions, bonus_effects |-> bonus_effects]

get_all_synergies ==
    <<
      ActionSynergy("launch_momentum", <<"ShipFeature", "ContentLaunch">>,
          <<SynergyBonus("WAU", 150, TRUE)>>),
      ActionSynergy("product_credibility", <<"ShipFeature", "DevRel">>,
          <<SynergyBonus("Reputation", 10000, FALSE), SynergyBonus("WAU", 50, TRUE)>>),
      ActionSynergy("feature_launch", <<"ShipFeature", "PaidAds">>,
          <<SynergyBonus("WAU", 200, TRUE), SynergyBonus("Burn", -100, TRUE)>>),
      ActionSynergy("engineering_excellence", <<"RefactorCode", "Coach">>,
          <<SynergyBonus("Velocity", 200, FALSE)>>),
      ActionSynergy("technical_foundation", <<"RefactorCode", "ProcessImprovement">>,
          <<SynergyBonus("Velocity", 150, FALSE), SynergyBonus("TechDebt", -10000, FALSE)>>),
      ActionSynergy("data_driven_content", <<"RunExperiment", "ContentLaunch">>,
          <<SynergyBonus("Reputation", 100, TRUE)>>),
      ActionSynergy("credibility_boost", <<"FounderLedSales", "DevRel">>,
          <<SynergyBonus("Reputation", 10000, FALSE)>>),
      ActionSynergy("sales_team", <<"FounderLedSales", "Coach">>,
          <<SynergyBonus("MRR", 100, TRUE)>>),
      ActionSynergy("community_building", <<"ContentLaunch", "DevRel">>,
          <<SynergyBonus("WAU", 200, TRUE), SynergyBonus("Reputation", 15000, FALSE)>>),
      ActionSynergy("integrated_marketing", <<"ContentLaunch", "PaidAds">>,
          <<SynergyBonus("WAU", 500, TRUE)>>),
      ActionSynergy("full_funnel", <<"DevRel", "PaidAds">>,
          <<SynergyBonus("WAU", 250, TRUE)>>),
      ActionSynergy("team_development", <<"Hire", "Coach">>,
          <<SynergyBonus("Velocity", 150, FALSE), SynergyBonus("Morale", 10000, FALSE)>>),
      ActionSynergy("scalable_operations", <<"Hire", "ProcessImprovement">>,
          <<SynergyBonus("Burn", -150, TRUE), SynergyBonus("Velocity", 100, FALSE)>>),
      ActionSynergy("regulatory_excellence", <<"ComplianceWork", "ProcessImprovement">>,
          <<SynergyBonus("ComplianceRisk", -20000, FALSE)>>),
      ActionSynergy("incident_prevention", <<"IncidentResponse", "ProcessImprovement">>,
          <<SynergyBonus("TechDebt", -5000, FALSE)>>),
      ActionSynergy("growth_capital", <<"Fundraise", "Hire">>,
          <<SynergyBonus("Velocity", 200, TRUE)>>),
      ActionSynergy("marketing_budget", <<"Fundraise", "PaidAds">>,
          <<SynergyBonus("WAU", 300, TRUE)>>),
      ActionSynergy("founder_wellness", <<"TakeBreak", "Coach">>,
          <<SynergyBonus("Morale", 20000, FALSE), SynergyBonus("Reputation", 5000, FALSE)>>),
      ActionSynergy("team_restructuring", <<"Fire", "Hire">>,
          <<SynergyBonus("Velocity", 100, FALSE), SynergyBonus("Morale", -5000, FALSE)>>),
      ActionSynergy("optimized_ads", <<"RunExperiment", "PaidAds">>,
          <<SynergyBonus("WAU", 150, TRUE)>>)
    >>

\* a detection that reads the list as a sequence: a synergy matches when its
\* first required kind is submitted before its last one
MatchInOrder(actions) ==
    SelectSeq(get_all_synergies,
              LAMBDA synergy :
                  \E i, j \in 1..Len(actions) :
                      /\ i < j
                      /\ actions[i].kind = Head(synergy.required_actions)
                      /\ actions[j].kind =
                             synergy.required_actions[Len(synergy.required_actions)])

\* the synergies whose every required kind is among the kinds of the actions
check_action_synergies(actions) ==
    LET action_types == {get_action_type(actions[i]) : i \in 1..Len(actions)}
    IN  SelectSeq(get_all_synergies,
                  LAMBDA synergy : \A j \in 1..Len(synergy.required_actions) :
                                      synergy.required_actions[j] \in action_types)

\* apply_bonus: *value *= 1.0 + amount, or *value += amount
apply_bonus(value, bonus) ==
    IF bonus.is_multiplier
    THEN MulDiv(value, 1000 + bonus.bonus_amount, 1000)
    ELSE value + bonus.bonus_amount

\* one arm of the match on stat_name in apply_synergy_bonuses
ApplySynergyBonus(s, bonus) ==
    CASE bonus.stat_name = "WAU" ->
           [s EXCEPT !.wau = Max(0, IF bonus.is_multiplier
                                    THEN (s.wau * (1000 + bonus.bonus_amount) + 500) \div 1000
                                    ELSE s.wau + TruncToInt(bonus.bonus_amount))]
      [] bonus.stat_name = "MRR" -> [s EXCEPT !.mrr = Max(0, apply_bonus(s.mrr, bonus))]
      [] bonus.stat_name = "Burn" -> [s EXCEPT !.burn = Max(0, apply_bonus(s.burn, bonus))]
      [] bonus.stat_name = "Velocity" ->
           [s EXCEPT !.velocity = Clamp(apply_bonus(s.velocity, bonus), 0, 5000)]
      [] bonus.stat_name = "Morale" ->
           [s EXCEPT !.morale = Clamp(apply_bonus(s.morale, bonus), 0, 100000)]
      [] bonus.stat_name = "Reputation" ->
           [s EXCEPT !.reputation = Clamp(apply_bonus(s.reputation, bonus), 0, 100000)]
      [] bonus.stat_name = "TechDebt" ->
           [s EXCEPT !.tech_debt = Clamp(apply_bonus(s.tech_debt, bonus), 0, 100000)]
      [] bonus.stat_name = "ComplianceRisk" ->
           [s EXCEPT !.compliance_risk = Clamp(apply_bonus(s.compliance_risk, bonus), 0, 100000)]
      [] OTHER -> s

RECURSIVE ApplySynergyEffects(_, _)
ApplySynergyEffects(s, effects) ==
    IF effects = <<>> THEN s
    ELSE ApplySynergyEffects(ApplySynergyBonus(s, Head(effects)), Tail(effects))

RECURSIVE ApplySynergies(_, _)
ApplySynergies(s, synergies) ==
    IF synergies = <<>> THEN s
    ELSE ApplySynergies(ApplySynergyEffects(s, Head(synergies).bonus_effects), Tail(synergies))

\* apply_synergy_bonuses: every bonus of every synergy, then the derived metrics
apply_synergy_bonuses(s, synergies) ==
    update_derived_metrics(ApplySynergies(s, synergies))

(***************************************************************************)
(* detect_specialization_path                                              *)
(***************************************************************************)
\* every entry of the log, however old
AllEntries(action_history) == action_history

\* action_history.iter().rev().take(8): the newest 8 entries
RecentEntries(action_history) ==
    SubSeq(action_history, Max(1, Len(action_history) - 7), Len(action_history))

RECURSIVE FlattenActions(_)
\* all_actions.extend(actions) for every entry (week, actions)
FlattenActions(entries) ==
    IF entries = <<>> THEN <<>>
    ELSE Head(entries)[2] \o FlattenActions(Tail(entries))

\* the category of the match on get_action_type
ActionCategory(a) ==
    CASE get_action_type(a) \in {"ShipFeature", "RefactorCode", "RunExperiment"} -> "product"
      [] get_action_type(a) \in {"FounderLedSales", "ContentLaunch", "DevRel", "PaidAds"} -> "growth"
      [] get_action_type(a) \in {"ComplianceWork", "IncidentResponse", "ProcessImprovement"} -> "ops"
      [] get_action_type(a) \in {"Hire", "Coach", "Fire"} -> "team"
      [] OTHER -> "other"

\* category_counts[category]
CategoryCount(all_actions, category) ==
    Cardinality({i \in 1..Len(all_actions) : ActionCategory(all_actions[i]) = category})

\* the shares are count / total; share >= 0.6 is 5 * count >= 3 * total, and
\* growth_pct + team_pct * 0.5 >= 0.6 is 10 * growth + 5 * team >= 6 * total
detect_specialization_path(action_history, recent_actions) ==
    LET all_actions == FlattenActions(RecentEntries(action_history)) \o recent_actions
        total_actions == Len(all_actions)
        product == CategoryCount(all_actions, "product")
        growth == CategoryCount(all_actions, "growth")
        ops == CategoryCount(all_actions, "ops")
        team == CategoryCount(all_actions, "team")
    IN  IF all_actions = <<>> THEN "None"
        ELSE IF 5 * product >= 3 * total_actions THEN "ProductExcellence"
        ELSE IF 5 * growth >= 3 * total_actions THEN "GrowthHacking"
        ELSE IF 5 * ops >= 3 * total_actions THEN "OperationalEfficiency"
        ELSE IF 10 * growth + 5 * team >= 6 * total_actions THEN "CustomerObsessed"
        ELSE "None"

(***************************************************************************)
(* market_conditions.rs: the effectiveness modifier of an action under the *)
(* active conditions, in thousandths                                       *)
(***************************************************************************)
\* the factor one condition multiplies into the modifier of an action kind
ConditionFactor(id, kind) ==
    CASE id = "BullMarket" /\ kind = "Fundraise" -> 1500
      [] id = "BullMarket" /\ kind = "PaidAds" -> 1100
      [] id = "Recession" /\ kind = "Fundraise" -> 600
      [] id = "Recession" /\ kind = "Hire" -> 800
      [] id = "CompetitorLaunch" /\ kind = "PaidAds" -> 700
      [] id = "CompetitorLaunch" /\ kind = "ContentLaunch" -> 900
      [] id = "TechBoom" /\ kind = "Hire" -> 1200
      [] id = "TechBoom" /\ kind = "Fundraise" -> 1250
      [] id = "RegulationChange" /\ kind = "ComplianceWork" -> 1200
      [] id = "RegulationChange" /\ kind = "ShipFeature" -> 900
      [] id = "TalentWar" /\ kind = "Hire" -> 700
      [] id = "TalentWar" /\ kind = "Coach" -> 1100
      [] id = "ViralTrend" /\ kind = "ContentLaunch" -> 1300
      [] id = "ViralTrend" /\ kind = "PaidAds" -> 1200
      [] id = "SupplyChainDisruption" /\ kind = "ProcessImprovement" -> 1100
      [] id = "SupplyChainDisruption" /\ kind = "IncidentResponse" -> 900
      [] id = "EconomicStimulus" /\ kind = "Fundraise" -> 1200
      [] id = "EconomicStimulus" /\ kind = "FounderLedSales" -> 1100
      [] id = "IndustryConsolidation" /\ kind = "Fundraise" -> 1150
      [] id = "IndustryConsolidation" /\ kind = "DevRel" -> 950
      [] id = "TechCrunch" /\ kind = "ContentLaunch" -> 1200
      [] id = "TechCrunch" /\ kind = "DevRel" -> 1100
      [] id = "DataBreachScare" /\ kind = "ComplianceWork" -> 1300
      [] id = "DataBreachScare" /\ kind = "IncidentResponse" -> 1100
      [] id = "CompetitorFundingRound" /\ kind = "Fundraise" -> 900
      [] id = "CompetitorFundingRound" /\ kind = "PaidAds" -> 800
      [] id = "CompetitorAcquisition" /\ kind = "Fundraise" -> 1100
      [] id = "CompetitorAcquisition" /\ kind = "DevRel" -> 1100
      [] id = "CompetitorPricingWar" /\ kind = "PaidAds" -> 700
      [] id = "CompetitorPricingWar" /\ kind = "FounderLedSales" -> 800
      [] OTHER -> 1000

RECURSIVE Pow20(_)
Pow20(n) == IF n = 0 THEN 1 ELSE 20 * Pow20(n - 1)

RECURSIVE ModifierProduct(_, _, _)
\* for condition in conditions { modifier *= factor }: every factor is a
\* multiple of 0.05, so the product of n factors is kept exactly as a number
\* of 20^-n
ModifierProduct(modifier, kind, conditions) ==
    IF conditions = <<>> THEN modifier
    ELSE ModifierProduct(modifier * (ConditionFactor(Head(conditions).id, kind) \div 50),
                         kind, Tail(conditions))

\* num / 20^n in thousandths
ToThousandths(num, n) ==
    IF n <= 2 THEN (num * 1000) \div Pow20(n) ELSE num \div (Pow20(n) \div 1000)

\* the product returned as it is
UnclampedModifier(action, conditions) ==
    ToThousandths(ModifierProduct(1, action.kind, conditions), Len(conditions))

\* modifier.clamp(0.5, 2.0)
get_action_effectiveness_modifier(action, conditions) ==
    LET n == Len(conditions)
        product == ModifierProduct(1, action.kind, conditions)
    IN  IF product >= 2 * Pow20(n) THEN 2000
        ELSE IF 2 * product <= Pow20(n) THEN 500
        ELSE ToThousandths(product, n)

(***************************************************************************)
(* Weekly event pass and dilemma resolution (events_enhanced.rs)           *)
(***************************************************************************)
\* cooldowns ignored
AlwaysTrigger(cooldowns, event_id) == TRUE

can_trigger_event(cooldowns, event_id) ==
    IF event_id \in DOMAIN cooldowns THEN cooldowns[event_id] = 0 ELSE TRUE

\* The events pushed by the pass, in source order.  rolled holds the ids whose
\* probability roll (and customer/competitor lookup) succeeded this week.
Qualified(s, rolled) ==
    SelectSeq(EventIds, LAMBDA id : /\ Prerequisite(id, s)
                                    /\ id \in rolled
                                    /\ can_trigger_event(s.event_cooldowns, id))

GameEvent(id, s, x) ==
    [id |-> id,
     dilemma |-> IsDilemma(id),
     choices |-> IF IsDilemma(id)
                 THEN EventChoices(id, s, difficulty_mod(s.difficulty), x) ELSE <<>>,
     effects |-> IF IsDilemma(id)
                 THEN <<>> ELSE AutomaticEffects(id, difficulty_mod(s.difficulty)),
     cooldown_weeks |-> CooldownWeeks(id)]

\* no cooldown recorded for the pushed events
InsertNothing(cooldowns, ids) == cooldowns

\* state.event_cooldowns.insert(id, cooldown_weeks) next to every push
InsertCooldowns(cooldowns, ids) ==
    [id \in DOMAIN cooldowns \cup SeqToSet(ids) |->
        IF id \in SeqToSet(ids) THEN CooldownWeeks(id) ELSE cooldowns[id]]

\* every pushed event returned
NoCap(events, pick) == events

\* shuffle + truncate(2): pick = <<i, j>> names the two survivors, in order
CapEvents(events, pick) ==
    IF Len(events) > 2 THEN <<events[pick[1]], events[pick[2]]>> ELSE events

Picks(n) == IF n > 2 THEN {p \in (1..n) \X (1..n) : p[1] # p[2]} ELSE {<<1, 2>>}

\* the decrement loop run twice
DecrementTwice(cooldowns) ==
    [id \in DOMAIN cooldowns |-> IF cooldowns[id] > 1 THEN cooldowns[id] - 2 ELSE 0]

DecrementCooldowns(cooldowns) ==
    [id \in DOMAIN cooldowns |-> IF cooldowns[id] > 0 THEN cooldowns[id] - 1 ELSE cooldowns[id]]

\* the pass once the qualifying ids are known
EventPass(s, ids, x, pick) ==
    [state |-> [s EXCEPT !.event_cooldowns =
                    DecrementCooldowns(InsertCooldowns(s.event_cooldowns, ids))],
     events |-> CapEvents([i \in 1..Len(ids) |-> GameEvent(ids[i], s, x)], pick)]

\* check_for_events: returns the state with its cooldown map updated, and the events
check_for_events(s, rolled, x, pick) == EventPass(s, Qualified(s, rolled), x, pick)

\* the 'Focus' effect without its floor of 2, every other effect dropped
FocusWithoutFloor(s, e, burnout) ==
    IF e.stat_name = "Focus"
    THEN [s EXCEPT !.focus_slots = s.focus_slots + TruncToInt(e.change)]
    ELSE s

\* one effect of a choice; burnout is the rand::random() < change / 100 roll
apply_effect(s, e, burnout) ==
    CASE e.stat_name = "Morale" -> [s EXCEPT !.morale = s.morale + e.change]
      [] e.stat_name = "Reputation" -> [s EXCEPT !.reputation = s.reputation + e.change]
      [] e.stat_name = "Tech Debt" -> [s EXCEPT !.tech_debt = s.tech_debt + e.change]
      [] e.stat_name = "Velocity" -> [s EXCEPT !.velocity = s.velocity + e.change]
      [] e.stat_name = "WAU" -> [s EXCEPT !.wau = AsU32(Max(0, s.wau * 1000 + e.change))]
      [] e.stat_name = "WAU Growth" ->
           [s EXCEPT !.wau_growth_rate = s.wau_growth_rate + e.change]
      [] e.stat_name = "MRR" -> [s EXCEPT !.mrr = s.mrr + e.change]
      [] e.stat_name = "Burn" -> [s EXCEPT !.burn = s.burn + e.change]
      [] e.stat_name = "Bank" -> [s EXCEPT !.bank = s.bank + e.change]
      [] e.stat_name = "Founder Equity" ->
           [s EXCEPT !.founder_equity = s.founder_equity + e.change]
      [] e.stat_name = "Churn Rate" -> [s EXCEPT !.churn_rate = s.churn_rate + e.change]
      [] e.stat_name = "Focus" ->
           [s EXCEPT !.focus_slots = Max(2, s.focus_slots + TruncToInt(e.change))]
      [] e.stat_name = "Compliance Risk" ->
           [s EXCEPT !.compliance_risk = s.compliance_risk + e.change]
      [] e.stat_name = "NPS" -> [s EXCEPT !.nps = s.nps + e.change]
      [] e.stat_name = "Game End" -> [s EXCEPT !.morale = 100000]
      [] e.stat_name = "Burnout Risk" ->
           IF GenBool(e.change \div 100, burnout) THEN [s EXCEPT !.morale = -100000] ELSE s
      [] OTHER -> s

RECURSIVE ApplyEffects(_, _, _)
ApplyEffects(s, effects, burnout) ==
    IF effects = <<>> THEN s
    ELSE ApplyEffects(apply_effect(s, Head(effects), burnout), Tail(effects), burnout)

\* events_enhanced::apply_event_choice
apply_choice_effects(s, choice, burnout) ==
    update_derived_metrics(ApplyEffects(s, choice, burnout))

\* a resolution that never fails: an index past the end takes the last
\* choice, an event without choices changes nothing
ApplyAnyChoice(s, choice_index, event, burnout) ==
    IF event.choices = <<>> THEN [status |-> "ok", state |-> s]
    ELSE [status |-> "ok",
          state |-> apply_choice_effects(
                        s, event.choices[Min(choice_index + 1, Len(event.choices))], burnout)]

\* the apply_event_choice command of lib.rs
apply_event_choice(s, choice_index, event, burnout) ==
    IF event.dilemma
    THEN IF choice_index >= Len(event.choices)
         THEN [status |-> "rejected", state |-> s]
         ELSE [status |-> "ok",
               state |-> apply_choice_effects(s, event.choices[choice_index + 1], burnout)]
    ELSE [status |-> "rejected", state |-> s]

(***************************************************************************)
(* Commands (lib.rs)                                                       *)
(***************************************************************************)
\* no unlock check: every submitted action counts as available
AllAvailable(s, actions) == TRUE

\* every action's Debug text is among the Debug texts of the available actions
ActionsAvailable(s, actions) ==
    \A i \in 1..Len(actions) :
        DebugFmt(actions[i]) \in {DebugFmt(b) : b \in SeqToSet(get_available_actions(s))}

\* the arithmetic sum of the focus costs
TrueFocus(actions) == SumRange([i \in 1..Len(actions) |-> focus_cost(actions[i])], 1, Len(actions))

\* let total_focus: u8 = actions.iter().map(|a| a.focus_cost()).sum(), release build
total_focus(actions) == U8(TrueFocus(actions))

\* the same sum aborts in a build with overflow checks
FocusSumOverflows(actions) == TrueFocus(actions) > 255

RECURSIVE ResolveRange(_, _, _, _, _)
\* actions[lo..hi] resolved in order.  The range is split in halves and the
\* state after the first half is computed before the second half starts, which
\* keeps the evaluation depth logarithmic in the length of the list.
ResolveRange(s, actions, rs, lo, hi) ==
    IF lo > hi THEN s
    ELSE IF lo = hi THEN resolve_action(s, actions[lo], rs[lo])
    ELSE LET half == ResolveRange(s, actions, rs, lo, (lo + hi) \div 2)
         IN  IF half.week = s.week
             THEN ResolveRange(half, actions, rs, (lo + hi) \div 2 + 1, hi)
             ELSE half

\* for action in &actions { resolve_action(&mut state, action) }
ResolveActions(s, actions, rs) == ResolveRange(s, actions, rs, 1, Len(actions))

\* lib.rs:117
PushActionHistory(s, actions) ==
    [s EXCEPT !.action_history = Append(s.action_history, <<s.week, actions>>)]

\* lib.rs:111-117
AfterActions(s, actions, d) ==
    PushActionHistory(ResolveActions(s, actions, [i \in 1..Len(actions) |-> d.r]), actions)

\* lib.rs:128-129
CompoundingStep(s) == apply_compounding_bonuses(s, check_compounding_effects(s, 12))

\* lib.rs:111-133: the state on which the gates are evaluated
BeforeGates(s, actions, d) ==
    update_nps(apply_churn(CompoundingStep(AfterActions(s, actions, d))))

\* streak_weeks += 1 on a u8 holding 255 aborts in a build with overflow checks
StreakOverflows(s) ==
    /\ s.mrr >= s.burn /\ s.wau_growth_rate >= 10000 /\ s.nps >= 30000 /\ s.morale > 40000
    /\ s.escape_velocity_progress.streak_weeks = 255

\* the gates evaluated after the week has been advanced
AdvanceBeforeGates(bg, d) ==
    update_derived_metrics(
        update_escape_velocity_progress(
            advance_week(push_condition(update_market_conditions(bg), d.market1),
                         [market |-> d.market2, incident |-> d.incident])))

\* lib.rs:134-151, from the state on which the gates are evaluated
FromGates(bg, d) ==
    update_derived_metrics(
        advance_week(push_condition(update_market_conditions(
                                        update_escape_velocity_progress(bg)), d.market1),
                     [market |-> d.market2, incident |-> d.incident]))

\* the state handed to the event pass
AfterAdvance(s, actions, d) == FromGates(BeforeGates(s, actions, d), d)

Rejected(s) == [status |-> "rejected", state |-> s, events |-> <<>>]

Panicked(s) == [status |-> "panicked", state |-> s, events |-> <<>>]

TurnResult(pass) == [status |-> "ok", state |-> pass.state, events |-> pass.events]

\* lib.rs:134-173
FinishTurn(s, bg, d, build) ==
    IF build = "debug" /\ StreakOverflows(bg) THEN Panicked(s)
    ELSE TurnResult(check_for_events(FromGates(bg, d), d.rolled, d.x, d.pick))

\* take_turn; build is "release" or "debug" (overflow checks on)
take_turn(s, actions, d, build) ==
    IF ~ActionsAvailable(s, actions) THEN Rejected(s)
    ELSE IF build = "debug" /\ FocusSumOverflows(actions) THEN Panicked(s)
    ELSE IF total_focus(actions) > s.focus_slots THEN Rejected(s)
    ELSE FinishTurn(s, BeforeGates(s, actions, d), d, build)

\* the status with the defeats looked at before the victory
DefeatBeforeVictory(s) ==
    IF check_defeat(s) = "OutOfMoney" THEN "defeat:out_of_money"
    ELSE IF check_defeat(s) = "FounderBurnout" THEN "defeat:burnout"
    ELSE IF check_defeat(s) = "ReputationDestroyed" THEN "defeat:reputation"
    ELSE IF check_victory(s) THEN "victory"
    ELSE "playing"

check_game_status(s) ==
    IF check_victory(s) THEN "victory"
    ELSE IF check_defeat(s) = "OutOfMoney" THEN "defeat:out_of_money"
    ELSE IF check_defeat(s) = "FounderBurnout" THEN "defeat:burnout"
    ELSE IF check_defeat(s) = "ReputationDestroyed" THEN "defeat:reputation"
    ELSE "playing"

new_game(difficulty) ==
    CASE difficulty = "indie" -> GameState_new("IndieBootstrap")
      [] difficulty = "vc" -> GameState_new("VCTrack")
      [] difficulty = "regulated" -> GameState_new("RegulatedFintech")
      [] difficulty = "infra" -> GameState_new("InfraDevTool")

(***************************************************************************)
(* The state machine.  state is the GameState the front end holds, ret the *)
(* result of the last command, pre the state handed to that command, obs   *)
(* what the last turn did (observations used by the properties): the true  *)
(* focus sum, whether a locked kind was submitted, whether the gates were  *)
(* evaluated and held, the streak before, the number of most recent        *)
(* consecutive evaluations at which they held, the number of evaluations,  *)
(* the cooldown map and the ids rolled and qualified at the start of the   *)
(* event pass, the week each event id was last returned in, and the last   *)
(* dilemma resolution asked for, and the action list and random draws of   *)
(* the last accepted turn, with the synergies it detected, and the result  *)
(* and lookback window of the last check_compounding_effects call made on  *)
(* its own, and the input and output of the last other function called on  *)
(* its own.                                                                *)
(***************************************************************************)
EmptyMap == [id \in {} |-> 0]

Modes == {"indie", "vc", "regulated", "infra"}

BuildModes == {"release", "debug"}

\* the four escape-velocity gates on a state
GatesHold(s) ==
    /\ s.mrr >= s.burn
    /\ s.wau_growth_rate >= 10000
    /\ s.nps >= 30000
    /\ s.morale > 40000

\* the random draws of one turn: the lowest and the highest values
LowR ==
    [u1 |-> 0, u2 |-> 0, u3 |-> 0, coin |-> FALSE,
     deals |-> [i \in 1..5 |-> [hit |-> FALSE, u |-> 0]]]

HighR ==
    [u1 |-> 999, u2 |-> 999, u3 |-> 999, coin |-> TRUE,
     deals |-> [i \in 1..5 |-> [hit |-> TRUE, u |-> 999]]]

NoLookup == [deal_size |-> 5000, customer_mrr |-> 0]

QuietWeek ==
    [r |-> LowR, market1 |-> NoDraw, market2 |-> NoDraw, incident |-> FALSE,
     rolled |-> {}, x |-> NoLookup, pick |-> <<1, 2>>]

\* the last dilemma resolution asked for: index, whether the event was a
\* Dilemma, and how many choices it had
NoChoice == [index |-> 0, dilemma |-> FALSE, len |-> 0]

ObsInit ==
    [true_focus |-> 0, locked |-> FALSE, evaluated |-> FALSE, gates |-> FALSE,
     streak_before |-> 0, held |-> 0, evals |-> 0, pass_start |-> EmptyMap,
     qualified |-> <<>>, rolled |-> {}, prev_emit |-> EmptyMap, last_emit |-> EmptyMap,
     choice |-> NoChoice, actions |-> <<>>, draw |-> QuietWeek,
     synergies |-> <<>>, bonuses |-> <<>>, history_weeks |-> 0,
     input |-> <<>>, output |-> <<>>]

Init ==
    /\ state \in {new_game(m) : m \in Modes}
    /\ ret = [cmd |-> "new_game", status |-> "ok", events |-> <<>>, resolved |-> {}]
    /\ pre = state
    /\ obs = ObsInit

\* some submitted action's kind is not among the state's unlocked_actions
SomeKindLocked(s, actions) ==
    \E i \in 1..Len(actions) : actions[i].kind \notin SeqToSet(s.unlocked_actions)

EmittedIds(events) == {events[i].id : i \in 1..Len(events)}

\* what the turn did; bg is the state the gates saw, aa the one the pass saw
ObserveTurn(s, actions, d, res, bg, aa) ==
    IF res.status = "ok"
    THEN [true_focus |-> TrueFocus(actions),
          locked |-> SomeKindLocked(s, actions),
          evaluated |-> TRUE,
          gates |-> GatesHold(bg),
          streak_before |-> s.escape_velocity_progress.streak_weeks,
          held |-> IF GatesHold(bg) THEN obs.held + 1 ELSE 0,
          evals |-> obs.evals + 1,
          pass_start |-> aa.event_cooldowns,
          qualified |-> Qualified(aa, d.rolled),
          rolled |-> d.rolled,
          prev_emit |-> obs.last_emit,
          last_emit |-> [id \in DOMAIN obs.last_emit \cup EmittedIds(res.events) |->
                            IF id \in EmittedIds(res.events) THEN res.state.week
                            ELSE obs.last_emit[id]],
          choice |-> NoChoice,
          actions |-> actions,
          draw |-> d,
          synergies |-> check_action_synergies(actions),
          bonuses |-> obs.bonuses,
          history_weeks |-> obs.history_weeks,
          input |-> obs.input,
          output |-> obs.output]
    ELSE [obs EXCEPT !.true_focus = TrueFocus(actions),
                     !.locked = SomeKindLocked(s, actions),
                     !.evaluated = FALSE,
                     !.qualified = <<>>,
                     !.rolled = {}]

\* one take_turn call of the front end with the state it holds
TurnStep(Lists, Draws, Builds, max_week) ==
    /\ state.week < max_week
    /\ \E actions \in Lists, d0 \in Draws, build \in Builds :
         \E bg \in {BeforeGates(state, actions, d0)} :
         \E aa \in {FromGates(bg, d0)} :
         \E pick \in Picks(Len(Qualified(aa, d0.rolled))) :
         \E res \in {take_turn(state, actions, [d0 EXCEPT !.pick = pick], build)} :
            /\ state' = res.state
            /\ ret' = [cmd |-> "take_turn", status |-> res.status,
                       events |-> res.events, resolved |-> {}]
            /\ pre' = state
            /\ obs' = ObserveTurn(state, actions, [d0 EXCEPT !.pick = pick], res, bg, aa)

MaxChoiceIndex == 3

\* one apply_event_choice call for an event the last turn returned
ApplyEventChoice ==
    /\ ret.events # <<>>
    /\ \E i \in 1..Len(ret.events), choice_index \in 0..MaxChoiceIndex, burnout \in BOOLEAN :
         \E res \in {apply_event_choice(state, choice_index, ret.events[i], burnout)} :
             /\ ret.events[i].id \notin ret.resolved
             /\ state' = res.state
             /\ ret' = [ret EXCEPT !.cmd = "apply_event_choice",
                                   !.status = res.status,
                                   !.resolved = IF res.status = "ok"
                                                THEN ret.resolved \cup {ret.events[i].id}
                                                ELSE ret.resolved]
             /\ pre' = state
             /\ obs' = [obs EXCEPT !.choice = [index |-> choice_index,
                                               dilemma |-> ret.events[i].dilemma,
                                               len |-> Len(ret.events[i].choices)]]

(***************************************************************************)
(* Inputs of the main specification                                        *)
(***************************************************************************)
BulkLen == 128

TakeBreaks == <<Act("TakeBreak", "", 0), Act("TakeBreak", "", 0), Act("TakeBreak", "", 0)>>

SalesAndRaise == <<Act("FounderLedSales", "", 3), Act("Fundraise", "", 250000)>>

FireOnly == <<Act("Fire", "Performance", 0)>>

RaiseAndHire == <<Act("Fundraise", "", 250000), Act("Hire", "", 0)>>

HireBulk == [i \in 1..BulkLen |-> Act("Hire", "", 0)]

MainLists ==
    {TakeBreaks, SalesAndRaise, FireOnly, RaiseAndHire, HireBulk}

BusyWeek ==
    [r |-> HighR, market1 |-> [roll |-> TRUE, event |-> 0, dur |-> 0],
     market2 |-> [roll |-> TRUE, event |-> 1, dur |-> 1], incident |-> TRUE,
     rolled |-> {"talent_poaching", "press_mention"},
     x |-> [deal_size |-> 7999, customer_mrr |-> 600], pick |-> <<1, 2>>]

\* a quiet week in which a customer threatens to leave
ChurnWeek ==
    [QuietWeek EXCEPT !.rolled = {"customer_churn_warning"},
                      !.x = [deal_size |-> 5000, customer_mrr |-> 600]]

MainDraws == {BusyWeek, ChurnWeek}

MaxWeek == 2

TakeTurn == TurnStep(MainLists, MainDraws, BuildModes, MaxWeek)

Next == TakeTurn \/ ApplyEventChoice

Spec == Init /\ [][Next]_vars

(***************************************************************************)
(* The weekly gate evaluation on its own.  What the turn does before the   *)
(* evaluation is abstracted to a free choice of the four gated stats, one  *)
(* value on each side of every threshold.                                  *)
(***************************************************************************)
MaxGateEvals == 14

GateInputs(s) ==
    [mrr : {s.burn - 1, s.burn}, wau_growth_rate : {9999, 10000},
     nps : {29999, 30000}, morale : {40000, 40001}]

WithGateInputs(s, g) ==
    [s EXCEPT !.mrr = g.mrr, !.wau_growth_rate = g.wau_growth_rate,
              !.nps = g.nps, !.morale = g.morale]

\* lib.rs:134 followed by the front end's check_game_status
GateWeek ==
    /\ obs.evals < MaxGateEvals
    /\ \E g \in GateInputs(state) :
         \E bg \in {WithGateInputs(state, g)} :
         \E s2 \in {update_escape_velocity_progress(bg)} :
            /\ state' = s2
            /\ ret' = [cmd |-> "check_game_status", status |-> check_game_status(s2),
                       events |-> <<>>, resolved |-> {}]
            /\ pre' = state
            /\ obs' = [obs EXCEPT !.evaluated = TRUE,
                                  !.gates = GatesHold(bg),
                                  !.streak_before = state.escape_velocity_progress.streak_weeks,
                                  !.held = IF GatesHold(bg) THEN obs.held + 1 ELSE 0,
                                  !.evals = obs.evals + 1]

SpecGates == Init /\ [][GateWeek]_vars

(***************************************************************************)
(* The weekly event pass over many weeks: the same quiet turn every week,  *)
(* the rolls of four automatic events left open.                           *)
(***************************************************************************)
MaxEventWeeks == 9

RolledSets ==
    {{}, {"customer_complaint"}, {"server_outage", "press_mention"},
     {"server_outage", "press_mention", "competitor_failure"}}

EventDraws == {[QuietWeek EXCEPT !.rolled = r] : r \in RolledSets}

EventTurn == TurnStep({TakeBreaks}, EventDraws, {"release"}, MaxEventWeeks)

SpecEvents == Init /\ [][EventTurn]_vars

(***************************************************************************)
(* More than a year of quiet turns                                         *)
(***************************************************************************)
MaxHistoryWeeks == 54

HistoryTurn == TurnStep({TakeBreaks}, {QuietWeek}, {"release"}, MaxHistoryWeeks)

SpecHistory == Init /\ [][HistoryTurn]_vars

(***************************************************************************)
(* check_defeat on its own: the four stats it reads take values on both    *)
(* sides of their thresholds.                                              *)
(***************************************************************************)
DefeatInputs ==
    [bank : {-1000, 0, 1000}, runway_months : {-500, 0, 500},
     morale : {0, 1, 50000}, reputation : {9999, 10000, 10001}]

WithDefeatInputs(s, v) ==
    [s EXCEPT !.bank = v.bank, !.runway_months = v.runway_months,
              !.morale = v.morale, !.reputation = v.reputation]

DefeatCheck ==
    \E v \in DefeatInputs :
        \E s2 \in {WithDefeatInputs(state, v)} :
            /\ state' = s2
            /\ ret' = [cmd |-> "check_defeat", status |-> check_defeat(s2),
                       events |-> <<>>, resolved |-> {}]
            /\ pre' = state
            /\ obs' = obs

SpecDefeat == Init /\ [][DefeatCheck]_vars

(***************************************************************************)
(* check_action_synergies on its own: every list of one to MaxActions      *)
(* actions over kinds that pair up in the catalogue, two of them the same  *)
(* kind with different parameters.                                         *)
(***************************************************************************)
MaxActions == 3

SynergyAlphabet ==
    {Act("ShipFeature", "Quick", 0), Act("ShipFeature", "Polish", 0),
     Act("ContentLaunch", "BlogPost", 0), Act("DevRel", "Conference", 0),
     Act("PaidAds", "Google", 20000), Act("Hire", "", 0),
     Act("Fire", "Performance", 0), Act("Coach", "Skills", 0)}

\* check_action_synergies called with the last list and one more action
SynergyCheck ==
    /\ Len(obs.actions) < MaxActions
    /\ \E a \in SynergyAlphabet :
         \E actions \in {Append(obs.actions, a)} :
            /\ obs' = [obs EXCEPT !.actions = actions,
                                  !.synergies = check_action_synergies(actions)]
            /\ ret' = [cmd |-> "check_action_synergies", status |-> "ok",
                       events |-> <<>>, resolved |-> {}]
            /\ pre' = state
            /\ state' = state

SpecSynergies == Init /\ [][SynergyCheck]_vars

(***************************************************************************)
(* check_compounding_effects on its own: a fresh game given current stats  *)
(* on either side of each effect's gate, and a history of up to            *)
(* MaxSnapshots snapshots that satisfy every historical predicate except   *)
(* for one, at any position, that satisfies none or only the weaker morale *)
(* predicate; the lookback window is the 12 of take_turn or a shorter one. *)
(***************************************************************************)
MaxSnapshots == 13

GoodSnapshot ==
    [week |-> 0, bank |-> 50000, mrr |-> 1000, burn |-> 8000, wau |-> 200,
     morale |-> 80000, reputation |-> 70000, momentum |-> 800]

BadSnapshot ==
    [week |-> 0, bank |-> 10000, mrr |-> 0, burn |-> 8000, wau |-> 5,
     morale |-> 50000, reputation |-> 50000, momentum |-> 100]

MidSnapshot == [GoodSnapshot EXCEPT !.morale = 70000]

\* n snapshots, good except for the breaker r places before the newest one
BrokenHistory(n, r, breaker) ==
    [i \in 1..n |-> [(IF i = n - r THEN breaker ELSE GoodSnapshot) EXCEPT !.week = i - 1]]

\* current stats that pass the gate of every effect
AllGates(s) ==
    [s EXCEPT !.tech_debt = 20000, !.velocity = 900, !.nps = 70000, !.wau = 300,
              !.morale = 80000, !.bank = 130000, !.burn = 10000, !.mrr = 6000,
              !.wau_growth_rate = 9000, !.churn_rate = 5000]

\* one stat moved onto the threshold of a gate
GateVariants(s) ==
    {AllGates(s),
     [AllGates(s) EXCEPT !.tech_debt = 25000],
     [AllGates(s) EXCEPT !.velocity = 800],
     [AllGates(s) EXCEPT !.velocity = 700],
     [AllGates(s) EXCEPT !.nps = 60000],
     [AllGates(s) EXCEPT !.wau = 200],
     [AllGates(s) EXCEPT !.morale = 75000],
     [AllGates(s) EXCEPT !.morale = 65000],
     [AllGates(s) EXCEPT !.bank = 120000],
     [AllGates(s) EXCEPT !.mrr = 5000],
     [AllGates(s) EXCEPT !.wau_growth_rate = 8000],
     [AllGates(s) EXCEPT !.churn_rate = 8000]}

Lookbacks == {5, 12}

CompoundingCheck ==
    /\ ret.cmd = "new_game"
    /\ \E g \in GateVariants(state), n \in 0..MaxSnapshots, breaker \in {BadSnapshot, MidSnapshot},
          history_weeks \in Lookbacks :
         \E r \in 0..n :
         \E s2 \in {[update_derived_metrics(g) EXCEPT !.history = BrokenHistory(n, r, breaker)]} :
            /\ state' = s2
            /\ ret' = [cmd |-> "check_compounding_effects", status |-> "ok",
                       events |-> <<>>, resolved |-> {}]
            /\ pre' = state
            /\ obs' = [obs EXCEPT !.bonuses = check_compounding_effects(s2, history_weeks),
                                  !.history_weeks = history_weeks]

SpecCompounding == Init /\ [][CompoundingCheck]_vars

(***************************************************************************)
(* detect_specialization_path on its own: a log of single-action entries   *)
(* of one kind, older ones first, followed by double-action entries of a   *)
(* second kind, behind an optional block of old product entries that falls *)
(* out of the 8-entry window when the log is long; and a current turn of   *)
(* up to MaxRecent actions of a third kind.                                *)
(***************************************************************************)
MaxBlock == 4

MaxRecent == 2

OldBlock == 3

\* one action of each category
CategoryActions ==
    {Act("ShipFeature", "Quick", 0), Act("FounderLedSales", "", 3),
     Act("ComplianceWork", "", 8), Act("Hire", "", 0), Act("TakeBreak", "", 0)}

\* n entries holding the given actions, numbered from week w
LogBlock(n, w, actions) == [i \in 1..n |-> <<w + i - 1, actions>>]

SpecializationCheck ==
    /\ ret.cmd = "new_game"
    /\ \E y \in CategoryActions, w \in CategoryActions, z \in CategoryActions,
          o \in {0, OldBlock}, a \in 0..MaxBlock, b \in 0..MaxBlock, c \in 0..MaxRecent :
         \E log \in {LogBlock(o, 0, <<Act("ShipFeature", "Polish", 0)>>)
                     \o LogBlock(a, o, <<y>>) \o LogBlock(b, o + a, <<w, w>>)} :
         \E recent \in {[i \in 1..c |-> z]} :
            /\ state' = [state EXCEPT !.action_history = log]
            /\ ret' = [cmd |-> "detect_specialization_path", status |-> "ok",
                       events |-> <<>>, resolved |-> {}]
            /\ pre' = state
            /\ obs' = [obs EXCEPT !.actions = recent,
                                  !.output = detect_specialization_path(log, recent)]

SpecSpecialization == Init /\ [][SpecializationCheck]_vars

(***************************************************************************)
(* get_action_effectiveness_modifier on its own: up to MaxConditions       *)
(* active conditions, the same id allowed more than once, one of them a    *)
(* competitor condition whose id carries the competitor's id; actions with *)
(* factors above and below 1 and one that no condition matches.            *)
(***************************************************************************)
MaxConditions == 3

ConditionIds ==
    {"BullMarket", "Recession", "TechBoom", "TalentWar", "EconomicStimulus",
     "ViralTrend", "CompetitorFundingRound_c1"}

ModifierActions ==
    {Act("Fundraise", "", 250000), Act("Hire", "", 0), Act("PaidAds", "Google", 20000),
     Act("TakeBreak", "", 0)}

\* one more condition becomes active and the modifier of an action is asked for
ModifierCheck ==
    /\ Len(state.active_market_conditions) < MaxConditions
    /\ \E id \in ConditionIds, action \in ModifierActions :
         \E s2 \in {[state EXCEPT !.active_market_conditions =
                        Append(@, [id |-> id, duration_weeks |-> 4])]} :
            /\ state' = s2
            /\ ret' = [cmd |-> "get_action_effectiveness_modifier", status |-> "ok",
                       events |-> <<>>, resolved |-> {}]
            /\ pre' = state
            /\ obs' = [obs EXCEPT !.input = action,
                                  !.output = get_action_effectiveness_modifier(
                                                 action, get_active_conditions(s2))]

SpecModifier == Init /\ [][ModifierCheck]_vars

(***************************************************************************)
(* Weeks of a single TakeBreak, with the dilemmas of busy weeks resolved   *)
(* in between, so that the break starts from several morale values.        *)
(***************************************************************************)
MaxBreakWeeks == 4

OneBreak == <<Act("TakeBreak", "", 0)>>

BreakTurn == TurnStep({OneBreak}, {QuietWeek, BusyWeek}, {"release"}, MaxBreakWeeks)

SpecBreak == Init /\ [][BreakTurn \/ ApplyEventChoice]_vars

(***************************************************************************)
(* resolve_action on a new game (wau = 100) for each quality of            *)
(* ShipFeature and a grid of the draws of its ranges.                      *)
(***************************************************************************)
ShipDraws == {0, 111, 166, 167, 333, 500, 666, 667, 888, 999}

ShipResolve ==
    /\ ret.cmd = "new_game"
    /\ \E q \in {"Quick", "Balanced", "Polish"}, u1 \in ShipDraws, u2 \in {0, 999}, u3 \in {0, 999} :
         \E r \in {[LowR EXCEPT !.u1 = u1, !.u2 = u2, !.u3 = u3]} :
            /\ state' = resolve_action(state, Act("ShipFeature", q, 0), r)
            /\ ret' = [cmd |-> "resolve_action", status |-> "ok",
                       events |-> <<>>, resolved |-> {}]
            /\ pre' = state
            /\ obs' = [obs EXCEPT !.input = Act("ShipFeature", q, 0), !.output = r.u1]

SpecShip == Init /\ [][ShipResolve]_vars

(***************************************************************************)
(* resolve_action for Fundraise on new games whose reputation and morale   *)
(* (and with it momentum) range over their clamped interval, for both      *)
(* outcomes of the draw.                                                   *)
(***************************************************************************)
FundraiseReputations == {0, 30000, 50000, 100000}

FundraiseMorales == {0, 80000, 100000}

FundraiseResolve ==
    /\ ret.cmd = "new_game"
    /\ \E rep \in FundraiseReputations, morale \in FundraiseMorales,
          target \in {250000, 500000}, coin \in BOOLEAN :
         \E s \in {update_derived_metrics([state EXCEPT !.reputation = rep,
                                                        !.morale = morale])} :
            /\ state' = resolve_action(s, Act("Fundraise", "", target),
                                       [LowR EXCEPT !.coin = coin])
            /\ ret' = [cmd |-> "resolve_action", status |-> "ok",
                       events |-> <<>>, resolved |-> {}]
            /\ pre' = s
            /\ obs' = [obs EXCEPT !.input = Act("Fundraise", "", target),
                                  !.output = [chance |-> fundraise_success_chance(s),
                                              coin |-> coin]]

SpecFundraise == Init /\ [][FundraiseResolve]_vars

(***************************************************************************)
(* The event pass on games whose reputation and mrr lie on both sides of   *)
(* the thresholds of acquisition_offer, in a week whose roll for the offer *)
(* succeeds, followed by the choices of the player.                        *)
(***************************************************************************)
OfferReputations == {70000, 71000, 90000, 100000}

OfferRevenues == {50000, 50001, 80000}

OfferStreaks == {0, 11}

OfferPass ==
    /\ ret.cmd = "new_game"
    /\ \E rep \in OfferReputations, mrr \in OfferRevenues, streak \in OfferStreaks :
         \E s \in {update_derived_metrics(
                      [state EXCEPT !.reputation = rep, !.mrr = mrr,
                                    !.escape_velocity_progress.streak_weeks = streak])} :
         \E pass \in {check_for_events(s, {"acquisition_offer"}, NoLookup, <<1, 2>>)} :
            /\ state' = pass.state
            /\ ret' = [cmd |-> "check_for_events", status |-> "ok",
                       events |-> pass.events, resolved |-> {}]
            /\ pre' = s
            /\ obs' = [obs EXCEPT !.qualified = Qualified(s, {"acquisition_offer"}),
                                  !.rolled = {"acquisition_offer"}]

SpecOffers == Init /\ [][OfferPass \/ ApplyEventChoice]_vars

(***************************************************************************)
(* check_game_status on games whose streak lies on both sides of the       *)
(* victory threshold while the stats check_defeat reads lie on both sides  *)
(* of theirs.                                                              *)
(***************************************************************************)
StatusStreaks == {0, 11, 12, 13}

StatusCheck ==
    /\ ret.cmd = "new_game"
    /\ \E v \in DefeatInputs, streak \in StatusStreaks :
         \E s2 \in {[WithDefeatInputs(state, v)
                        EXCEPT !.escape_velocity_progress.streak_weeks = streak]} :
            /\ state' = s2
            /\ ret' = [cmd |-> "check_game_status", status |-> check_game_status(s2),
                       events |-> <<>>, resolved |-> {}]
            /\ pre' = state
            /\ obs' = obs

SpecStatus == Init /\ [][StatusCheck]_vars

(***************************************************************************)
(* Weeks of failed fundraising, which wear the morale down, mixed with     *)
(* weeks of rest, the roll for founder_health_crisis succeeding each week. *)
(***************************************************************************)
MaxCrisisWeeks == 9

FailedRaise == <<Act("Fundraise", "", 250000)>>

CrisisWeek == [QuietWeek EXCEPT !.rolled = {"founder_health_crisis"}]

CrisisTurn == TurnStep({FailedRaise, TakeBreaks}, {CrisisWeek}, {"release"}, MaxCrisisWeeks)

SpecCrisis == Init /\ [][CrisisTurn]_vars

(***************************************************************************)
(* Two weekly event passes on games whose growth rate lies on both sides   *)
(* of the threshold of viral_moment_gone_wrong and whose nps and wau do or *)
(* do not allow viral_moment, the rolls of either event succeeding or not. *)
(***************************************************************************)
MaxPassWeeks == 2

GrowthRates == {30000, 30001, 45000}

ViralStats == {[nps |-> 0, wau |-> 100], [nps |-> 61000, wau |-> 500]}

ViralRolls == {{"viral_moment"}, {"viral_moment_gone_wrong"},
               {"viral_moment", "viral_moment_gone_wrong"}}

FollowUpPass ==
    /\ state.week < MaxPassWeeks
    /\ \E g \in GrowthRates, v \in ViralStats, rolled \in ViralRolls :
         \E s \in {update_derived_metrics(
                      [state EXCEPT !.week = state.week + 1, !.wau_growth_rate = g,
                                    !.nps = v.nps, !.wau = v.wau])} :
         \E pass \in {check_for_events(s, rolled, NoLookup, <<1, 2>>)} :
            /\ state' = pass.state
            /\ ret' = [cmd |-> "check_for_events", status |-> "ok",
                       events |-> pass.events, resolved |-> {}]
            /\ pre' = s
            /\ obs' = [obs EXCEPT
                          !.qualified = Qualified(s, rolled),
                          !.rolled = rolled,
                          !.prev_emit = obs.last_emit,
                          !.last_emit =
                              [id \in DOMAIN obs.last_emit \cup EmittedIds(pass.events) |->
                                  IF id \in EmittedIds(pass.events) THEN s.week
                                  ELSE obs.last_emit[id]]]

SpecFollowUp == Init /\ [][FollowUpPass]_vars

(***************************************************************************)
(* Weeks of a single TakeBreak in which a big logo signs or a customer     *)
(* threatens to leave, long enough for big_logo_signs to come back after   *)
(* its cooldown of 8 weeks, with the choices of the player in between.     *)
(***************************************************************************)
MaxFocusWeeks == 9

LogoWeek == [QuietWeek EXCEPT !.rolled = {"big_logo_signs"}]

FocusTurn == TurnStep({OneBreak}, {LogoWeek, ChurnWeek}, {"release"}, MaxFocusWeeks)

SpecFocus == Init /\ [][FocusTurn \/ ApplyEventChoice]_vars

(***************************************************************************)
(* count_consecutive_weeks on its own: histories of up to MaxCountWeeks    *)
(* snapshots shaped like those of the unit test, the morale of each on     *)
(* either side of 75, with a lookback shorter or longer than the history.  *)
(***************************************************************************)
MaxCountWeeks == 3

CountMorales == {70000, 80000, 85000, 90000}

CountLookbacks == {2, 10}

TestSnapshot(i, morale) ==
    [week |-> i - 1, bank |-> 50000, mrr |-> 1000, burn |-> 8000, wau |-> 100,
     morale |-> morale, reputation |-> 60000 + 5000 * (i - 1), momentum |-> 700]

CountCheck ==
    /\ ret.cmd = "new_game"
    /\ \E n \in 0..MaxCountWeeks, max_lookback \in CountLookbacks :
         \E morales \in [1..n -> CountMorales] :
         \E history \in {[i \in 1..n |-> TestSnapshot(i, morales[i])]} :
            /\ state' = [state EXCEPT !.history = history]
            /\ ret' = [cmd |-> "count_consecutive_weeks", status |-> "ok",
                       events |-> <<>>, resolved |-> {}]
            /\ pre' = state
            /\ obs' = [obs EXCEPT
                          !.history_weeks = max_lookback,
                          !.output = count_consecutive_weeks(
                                         history, max_lookback,
                                         [i \in 1..n |-> history[i].morale > 75000])]

SpecCount == Init /\ [][CountCheck]_vars

(***************************************************************************)
(* Properties of the main specification                                    *)
(***************************************************************************)
\* C1: whenever the focus costs of the submitted actions sum to more than the
\* state's focus_slots, take_turn returns a rejection and the game state is
\* exactly the state handed to the call.
C1_OverBudgetRejected ==
    (ret.cmd = "take_turn" /\ obs.true_focus > pre.focus_slots)
        => (ret.status = "rejected" /\ state = pre)

InRange(x, lo, hi) == lo <= x /\ x <= hi

C9_ConditionsAgeByOne ==
    (ret.cmd = "take_turn" /\ ret.status = "ok") =>
        LET survivors == update_market_conditions(pre).active_market_conditions
        IN  /\ Len(state.active_market_conditions) >= Len(survivors)
            /\ SubSeq(state.active_market_conditions, 1, Len(survivors)) = survivors

\* C10: whenever the kind of a submitted action is not in the state's
\* unlocked_actions, take_turn returns a rejection and leaves the state as it was.
C10_LockedKindRejected ==
    (ret.cmd = "take_turn" /\ obs.locked) => (ret.status = "rejected" /\ state = pre)

\* a rejected turn that submitted an action of a locked kind
C10_Witness ==
    /\ ret.cmd = "take_turn" /\ obs.locked /\ ret.status = "rejected"
    /\ pre.week > 0

(***************************************************************************)
(* Properties of the gate evaluation                                       *)
(***************************************************************************)
\* C3: after a weekly gate evaluation at which at least one of the four
\* escape-velocity gates was false, streak_weeks is 0, whatever it was before.
C3_StreakResetsOnFailure ==
    (obs.evaluated /\ ~obs.gates) => state.escape_velocity_progress.streak_weeks = 0

\* an evaluation with a gate false that found a running streak
C3_Witness ==
    /\ obs.evaluated /\ ~obs.gates /\ obs.streak_before > 0
    /\ state.escape_velocity_progress.streak_weeks = 0

\* C4: from a new game, victory is reported after an evaluation if and only if
\* all four gates held at each of the 12 or more most recent consecutive
\* evaluations, and an evaluation at which all four hold raises streak_weeks
\* by exactly 1.
C4_VictoryIffTwelveHeld ==
    ret.cmd = "check_game_status" =>
        /\ (ret.status = "victory") <=> (obs.held >= 12)
        /\ check_victory(state) <=> (obs.held >= 12)
        /\ obs.gates =>
               state.escape_velocity_progress.streak_weeks = obs.streak_before + 1

\* victory reported at the twelfth consecutive evaluation with all gates held,
\* after an earlier evaluation had broken a streak
C4_Witness ==
    /\ ret.cmd = "check_game_status" /\ ret.status = "victory"
    /\ obs.held = 12 /\ obs.evals > 12

(***************************************************************************)
(* Properties of the event pass                                            *)
(***************************************************************************)
AcceptedTurn == ret.cmd = "take_turn" /\ ret.status = "ok"

OnCooldown(cooldowns) == {id \in DOMAIN cooldowns : cooldowns[id] > 0}

\* C5: no value of event_cooldowns is below 0, and the weekly event pass
\* returns no event whose cooldown was above 0 when the pass started.
C5_CooldownsRespected ==
    /\ \A id \in DOMAIN state.event_cooldowns : state.event_cooldowns[id] >= 0
    /\ AcceptedTurn =>
           \A i \in 1..Len(ret.events) : ret.events[i].id \notin OnCooldown(obs.pass_start)

\* a pass that rolled an event on cooldown and returned another one
C5_Witness ==
    /\ AcceptedTurn
    /\ obs.rolled \cap OnCooldown(obs.pass_start) # {}
    /\ ret.events # <<>>

\* C6: an event with cooldown_weeks = N returned by the pass of week W is not
\* returned again by a pass before week W + N.
C6_NoReemissionBeforeCooldown ==
    AcceptedTurn =>
        \A i \in 1..Len(ret.events) :
            ret.events[i].id \in DOMAIN obs.prev_emit =>
                state.week >= obs.prev_emit[ret.events[i].id] + ret.events[i].cooldown_weeks

\* an event with a cooldown of 8 weeks returned again exactly 8 weeks later
C6_Witness ==
    /\ AcceptedTurn
    /\ \E i \in 1..Len(ret.events) :
          /\ ret.events[i].cooldown_weeks = 8
          /\ ret.events[i].id \in DOMAIN obs.prev_emit
          /\ state.week = obs.prev_emit[ret.events[i].id] + 8

\* C7: an accepted turn leaves every cooldown that was nonzero at its start
\* exactly one lower (one event pass per turn), however many events
\* qualified or were returned.
C7_CooldownsDropByOne ==
    AcceptedTurn =>
        \A id \in OnCooldown(pre.event_cooldowns) :
            /\ id \in DOMAIN state.event_cooldowns
            /\ state.event_cooldowns[id] = pre.event_cooldowns[id] - 1

\* a turn with a cooldown running at its start in which more events qualified
\* than the cap lets through
C7_Witness ==
    /\ AcceptedTurn
    /\ OnCooldown(pre.event_cooldowns) # {}
    /\ Len(obs.qualified) > 2 /\ Len(ret.events) = 2

(***************************************************************************)
(* Property of the history                                                 *)
(***************************************************************************)
\* C8: history never holds more than 52 snapshots and always is the most
\* recent snapshots in week order, the oldest one evicted once it is full.
C8_HistoryIsRecentWeeks ==
    /\ Len(state.history) <= 52
    /\ \A i \in 1..Len(state.history) :
           state.history[i].week = state.week - Len(state.history) + i

\* a full history whose oldest snapshots have been evicted
C8_Witness ==
    /\ state.week > 52
    /\ Len(state.history) = 52
    /\ state.history[1].week = state.week - 51

(***************************************************************************)
(* Properties of the dilemma resolution                                    *)
(***************************************************************************)
\* C11: apply_event_choice fails when choice_index is not an index into the
\* event's choices or when the event is not a Dilemma, and in both cases the
\* game state is the one handed to the call.
C11_BadChoiceRejected ==
    (ret.cmd = "apply_event_choice"
        /\ (~obs.choice.dilemma \/ obs.choice.index >= obs.choice.len))
        => (ret.status = "rejected" /\ state = pre)

\* a Dilemma resolved with an index one past its last choice
C11_Witness ==
    /\ ret.cmd = "apply_event_choice" /\ ret.status = "rejected"
    /\ obs.choice.dilemma /\ obs.choice.len > 0
    /\ obs.choice.index = obs.choice.len
    /\ state = pre

(***************************************************************************)
(* Property of check_defeat                                                *)
(***************************************************************************)
\* C12: check_defeat reports a defeat exactly when bank <= 0, runway_months
\* <= 0, morale <= 0 or reputation <= 10, and the reason it reports is one
\* whose predicate holds.
C12_DefeatIffPredicate ==
    ret.cmd = "check_defeat" =>
        /\ (ret.status # "None") <=>
               \/ state.bank <= 0 \/ state.runway_months <= 0
               \/ state.morale <= 0 \/ state.reputation <= 10000
        /\ ret.status \in {"None", "OutOfMoney", "FounderBurnout", "ReputationDestroyed"}
        /\ ret.status = "OutOfMoney" => (state.bank <= 0 \/ state.runway_months <= 0)
        /\ ret.status = "FounderBurnout" => state.morale <= 0
        /\ ret.status = "ReputationDestroyed" => state.reputation <= 10000

\* a reputation of exactly 10 with money and morale left
C12_Witness ==
    /\ ret.cmd = "check_defeat" /\ ret.status = "ReputationDestroyed"
    /\ state.reputation = 10000 /\ state.bank > 0 /\ state.morale > 0

\* C13: a weekly event pass returns at most 2 events, however many qualified.
C13_AtMostTwoEvents == AcceptedTurn => Len(ret.events) <= 2

\* three events qualified and two of them, distinct, were returned
C13_Witness ==
    /\ AcceptedTurn
    /\ Len(obs.qualified) = 3
    /\ Len(ret.events) = 2
    /\ ret.events[1].id # ret.events[2].id
    /\ {ret.events[1].id, ret.events[2].id} \subseteq SeqToSet(obs.qualified)

(***************************************************************************)
(* Properties of the turn pipeline                                         *)
(***************************************************************************)
LastSnapshot(s) == s.history[Len(s.history)]

\* C14: a new game holds exactly one snapshot, of week 0; an accepted turn
\* raises week by exactly 1 and appends exactly one snapshot, taken at the
\* end of the week, whose week field is the new week number.
C14_OneSnapshotPerWeek ==
    /\ ret.cmd = "new_game" =>
           /\ state.week = 0
           /\ Len(state.history) = 1
           /\ state.history[1].week = 0
    /\ AcceptedTurn =>
           /\ state.week = pre.week + 1
           /\ state.history = IF Len(pre.history) < 52
                               THEN Append(pre.history, LastSnapshot(state))
                               ELSE Tail(Append(pre.history, LastSnapshot(state)))
           /\ LastSnapshot(state).week = state.week
           /\ LastSnapshot(state).bank = state.bank
           /\ LastSnapshot(state).mrr = state.mrr
           /\ LastSnapshot(state).burn = state.burn
           /\ LastSnapshot(state).wau = state.wau
           /\ LastSnapshot(state).morale = state.morale
           /\ LastSnapshot(state).reputation = state.reputation

\* the second accepted turn of a game: three snapshots, weeks 0, 1 and 2
C14_Witness ==
    /\ AcceptedTurn
    /\ pre.week = 1 /\ state.week = 2
    /\ Len(state.history) = 3
    /\ state.history[3].week = 2

\* the steps of a turn up to the churn and NPS drift, one after the other
Drifted(s, actions, d) ==
    LET resolved == ResolveActions(s, actions, [i \in 1..Len(actions) |-> d.r])
        tracked == [resolved EXCEPT
                        !.action_history = Append(@, <<resolved.week, actions>>)]
        compounded == apply_compounding_bonuses(tracked,
                                                check_compounding_effects(tracked, 12))
    IN  update_nps(apply_churn(compounded))

\* the remaining steps: gates and streak, market conditions, the weekly
\* advance, the event roll
InOrder(s, actions, d) ==
    LET gated == update_escape_velocity_progress(Drifted(s, actions, d))
        market == push_condition(update_market_conditions(gated), d.market1)
        advanced == update_derived_metrics(
                        advance_week(market, [market |-> d.market2,
                                              incident |-> d.incident]))
    IN  check_for_events(advanced, d.rolled, d.x, d.pick).state

\* C15: an accepted turn resolves the actions, then applies the compounding
\* bonuses, then churn and NPS drift, then evaluates the gates and the
\* streak, then advances the week, then rolls the events; the gates are those
\* of the state after the drift and before the week is advanced.
C15_PipelineOrder ==
    AcceptedTurn =>
        /\ state = InOrder(pre, obs.actions, obs.draw)
        /\ state.escape_velocity_progress =
               update_escape_velocity_progress(
                   Drifted(pre, obs.actions, obs.draw)).escape_velocity_progress

\* a turn whose morale gate held when the gates were evaluated and no longer
\* holds on the state the turn returns, after the weekly advance
C15_Witness ==
    /\ AcceptedTurn
    /\ state.escape_velocity_progress.founder_healthy
    /\ state.morale <= 40000

(***************************************************************************)
(* C16: in an accepted turn whose action kinds match catalogue synergies,  *)
(* the bonuses of every matched synergy are applied to the state once, in  *)
(* one batch after the actions are resolved: the returned state is the one *)
(* the pipeline yields with apply_synergy_bonuses run between the action   *)
(* loop and the compounding step.                                          *)
(***************************************************************************)
WithSynergies(s, actions, d) ==
    LET resolved == ResolveActions(s, actions, [i \in 1..Len(actions) |-> d.r])
        tracked == [resolved EXCEPT !.action_history = Append(@, <<resolved.week, actions>>)]
        boosted == apply_synergy_bonuses(tracked, check_action_synergies(actions))
        compounded == apply_compounding_bonuses(boosted, check_compounding_effects(boosted, 12))
        gated == update_escape_velocity_progress(update_nps(apply_churn(compounded)))
        market == push_condition(update_market_conditions(gated), d.market1)
        advanced == update_derived_metrics(
                        advance_week(market, [market |-> d.market2, incident |-> d.incident]))
    IN  check_for_events(advanced, d.rolled, d.x, d.pick).state

C16_SynergyBonusesApplied ==
    (AcceptedTurn /\ obs.synergies # <<>>) =>
        state = WithSynergies(pre, obs.actions, obs.draw)

\* the action at position i of the list changes the state when resolved on
\* its own, and its modifier under the conditions of the state is not 1
ModifiedAction(s, actions, d, i) ==
    /\ get_action_effectiveness_modifier(actions[i], get_active_conditions(s)) # 1000
    /\ resolve_action(s, actions[i], d.r) # s

\* the state without its list of market conditions
Calm(s) == [s EXCEPT !.active_market_conditions = <<>>]

(***************************************************************************)
(* C17: an accepted turn resolves each action scaled by the modifier of    *)
(* the conditions active at its start: when an action with an effect has a *)
(* modifier other than 1, the returned state differs, apart from the list  *)
(* of conditions itself, from the one the same actions and draws yield     *)
(* from the same state with no active condition.                           *)
(***************************************************************************)
C17_ModifierScalesEffect ==
    (/\ AcceptedTurn
     /\ \E i \in 1..Len(obs.actions) : ModifiedAction(pre, obs.actions, obs.draw, i)) =>
        Calm(state) # Calm(InOrder(Calm(pre), obs.actions, obs.draw))

RECURSIVE AutomaticEffectsOf(_)
\* the effect lists of the Automatic events of a list, in order
AutomaticEffectsOf(events) ==
    IF events = <<>> THEN <<>>
    ELSE (IF Head(events).dilemma THEN <<>> ELSE Head(events).effects)
         \o AutomaticEffectsOf(Tail(events))

(***************************************************************************)
(* C18: when the event pass of an accepted turn returns an Automatic       *)
(* event, the returned state already carries that event's effects: it is   *)
(* the state of the turn with the effect lists of the returned Automatic   *)
(* events applied (with or without the derived metrics recomputed).        *)
(***************************************************************************)
C18_AutomaticEffectsApplied ==
    (AcceptedTurn /\ AutomaticEffectsOf(ret.events) # <<>>) =>
        \E burnout \in BOOLEAN :
            \E applied \in {ApplyEffects(InOrder(pre, obs.actions, obs.draw),
                                         AutomaticEffectsOf(ret.events), burnout)} :
                state \in {applied, update_derived_metrics(applied)}

\* the kinds present in a list of actions
KindsOf(actions) == {actions[i].kind : i \in 1..Len(actions)}

\* the same list with other parameters on every action that has some
Reparam(actions) ==
    [i \in 1..Len(actions) |->
        CASE actions[i].kind = "ShipFeature" -> [actions[i] EXCEPT !.variant = "Balanced"]
          [] actions[i].kind = "ContentLaunch" -> [actions[i] EXCEPT !.variant = "Tutorial"]
          [] actions[i].kind = "DevRel" -> [actions[i] EXCEPT !.variant = "Podcast"]
          [] actions[i].kind = "PaidAds" -> [actions[i] EXCEPT !.amount = @ + 5000]
          [] actions[i].kind = "Fire" -> [actions[i] EXCEPT !.variant = "Budget"]
          [] actions[i].kind = "Coach" -> [actions[i] EXCEPT !.variant = "Morale"]
          [] OTHER -> actions[i]]

Reversed(actions) == [i \in 1..Len(actions) |-> actions[Len(actions) + 1 - i]]

(***************************************************************************)
(* C19: check_action_synergies returns exactly the catalogue synergies     *)
(* whose required kinds all occur among the kinds of the turn's actions,   *)
(* and returns the same for the list with other parameters, in reverse     *)
(* order, and with every action repeated.                                  *)
(***************************************************************************)
C19_SynergiesByKindSet ==
    ret.cmd = "check_action_synergies" =>
        /\ \A k \in 1..Len(get_all_synergies) :
              (\E j \in 1..Len(obs.synergies) : obs.synergies[j] = get_all_synergies[k])
              <=> SeqToSet(get_all_synergies[k].required_actions) \subseteq KindsOf(obs.actions)
        /\ \A j \in 1..Len(obs.synergies) :
              \E k \in 1..Len(get_all_synergies) : obs.synergies[j] = get_all_synergies[k]
        /\ Cardinality(SeqToSet(obs.synergies)) = Len(obs.synergies)
        /\ check_action_synergies(Reparam(obs.actions)) = obs.synergies
        /\ check_action_synergies(Reversed(obs.actions)) = obs.synergies
        /\ check_action_synergies(obs.actions \o obs.actions) = obs.synergies

\* a list with ShipFeature twice, under different parameters, and a kind
\* that pairs with it: one synergy returned, once
C19_Witness ==
    /\ ret.cmd = "check_action_synergies"
    /\ Len(obs.actions) = 3
    /\ \E i, j \in 1..3 : /\ obs.actions[i].kind = obs.actions[j].kind
                          /\ obs.actions[i] # obs.actions[j]
    /\ Len(obs.synergies) = 1

\* the length of the unbroken run of TRUE at the end of flags, at most lookback
RunLength(flags, lookback) ==
    LET n == Len(flags)
        window == Min(lookback, n)
    IN  CHOOSE k \in 0..window :
            /\ \A i \in (n - k + 1)..n : flags[i]
            /\ k = window \/ ~flags[n - k]

\* the six effects: current-state gate, historical predicate over the
\* snapshots, minimum run length
EffectTable(s) ==
    LET h == s.history
        over(p(_)) == [i \in 1..Len(h) |-> p(h[i])]
        momentum_kept(x) == x.momentum > 700
        reputation_kept(x) == x.reputation > 60000
        morale_high(x) == x.morale > 75000
        runway_kept(x) == IF x.burn > 0 THEN x.bank > 3 * x.burn
                          ELSE IF x.burn = 0 THEN x.bank > 0 ELSE x.bank < 3 * x.burn
        wau_kept(x) == x.wau >= 10
        morale_kept(x) == x.morale > 60000
    IN  {[id |-> "engineering_excellence", min |-> 4, flags |-> over(momentum_kept),
          gate |-> s.tech_debt < 25000 /\ s.velocity > 800],
         [id |-> "customer_love", min |-> 6, flags |-> over(reputation_kept),
          gate |-> s.nps > 60000 /\ s.wau > 200],
         [id |-> "strong_culture", min |-> 8, flags |-> over(morale_high),
          gate |-> s.morale > 75000],
         [id |-> "financial_discipline", min |-> 8, flags |-> over(runway_kept),
          gate |-> s.runway_months > 12000 /\ s.burn > 0 /\ 2 * s.mrr > s.burn],
         [id |-> "momentum_master", min |-> 6, flags |-> over(wau_kept),
          gate |-> s.wau_growth_rate > 8000 /\ s.churn_rate < 8000],
         [id |-> "sustainable_pace", min |-> 10, flags |-> over(morale_kept),
          gate |-> s.morale > 65000 /\ s.velocity > 700]}

EmittedEffects(bonuses) == {bonuses[j].effect_id : j \in 1..Len(bonuses)}

(***************************************************************************)
(* C20: check_compounding_effects emits the bonus of an effect exactly     *)
(* when the effect's gate holds on the current state and the unbroken run  *)
(* of newest snapshots satisfying its historical predicate, counted within *)
(* the lookback window, is at least its minimum (4, 6, 8, 8, 6, 10); each  *)
(* bonus is emitted once and no other bonus is emitted.                    *)
(***************************************************************************)
C20_BonusIffGateAndRun ==
    ret.cmd = "check_compounding_effects" =>
        /\ \A e \in EffectTable(state) :
              e.id \in EmittedEffects(obs.bonuses)
              <=> (e.gate /\ RunLength(e.flags, obs.history_weeks) >= e.min)
        /\ EmittedEffects(obs.bonuses) \subseteq {e.id : e \in EffectTable(state)}
        /\ Cardinality(EmittedEffects(obs.bonuses)) = Len(obs.bonuses)

\* every gate holds and the history has a break seven snapshots back: the
\* effects with a minimum of 4 and 6 are emitted, those with 8 and 10 are not
C20_Witness ==
    /\ ret.cmd = "check_compounding_effects"
    /\ obs.history_weeks = 12
    /\ \A e \in EffectTable(state) : e.gate
    /\ Len(state.history) > 12
    /\ EmittedEffects(obs.bonuses) =
           {"engineering_excellence", "customer_love", "momentum_master"}

\* the actions detect_specialization_path counts: those of the last 8 log
\* entries and those of the current turn
CountedActions ==
    LET log == state.action_history
        first == IF Len(log) > 8 THEN Len(log) - 7 ELSE 1
    IN  {c \in {"log"} \X (first..Len(log)) \X (1..2) : c[3] <= Len(log[c[2]][2])}
        \cup ({"turn"} \X {0} \X (1..Len(obs.actions)))

KindCounted(c) == IF c[1] = "log" THEN state.action_history[c[2]][2][c[3]].kind
                  ELSE obs.actions[c[3]].kind

\* the number of counted actions whose kind is in the set
CountOf(kinds) == Cardinality({c \in CountedActions : KindCounted(c) \in kinds})

ProductKinds == {"ShipFeature", "RefactorCode", "RunExperiment"}

GrowthKinds == {"FounderLedSales", "ContentLaunch", "DevRel", "PaidAds"}

OpsKinds == {"ComplianceWork", "IncidentResponse", "ProcessImprovement"}

TeamKinds == {"Hire", "Coach", "Fire"}

(***************************************************************************)
(* C21: detect_specialization_path returns none when no action is counted; *)
(* otherwise ProductExcellence when the product share of the counted       *)
(* actions is at least 60%, else GrowthHacking for growth, else            *)
(* OperationalEfficiency for ops, else CustomerObsessed when the growth    *)
(* share plus half the team share is at least 60%, else none.              *)
(***************************************************************************)
C21_PathByShare ==
    ret.cmd = "detect_specialization_path" =>
        LET n == Cardinality(CountedActions)
        IN  obs.output =
              IF n = 0 THEN "None"
              ELSE IF 100 * CountOf(ProductKinds) >= 60 * n THEN "ProductExcellence"
              ELSE IF 100 * CountOf(GrowthKinds) >= 60 * n THEN "GrowthHacking"
              ELSE IF 100 * CountOf(OpsKinds) >= 60 * n THEN "OperationalEfficiency"
              ELSE IF 100 * CountOf(GrowthKinds) + 50 * CountOf(TeamKinds) >= 60 * n
                   THEN "CustomerObsessed"
              ELSE "None"

\* a log longer than the window whose old product entries, had they been
\* counted, would have kept the growth share below 60%
C21_Witness ==
    /\ ret.cmd = "detect_specialization_path"
    /\ Len(state.action_history) > 8
    /\ obs.output = "GrowthHacking"
    /\ 100 * CountOf(GrowthKinds) < 60 * (Cardinality(CountedActions) + OldBlock)

\* the conditions of the state whose id has a factor for the kind
Matching(kind) ==
    {i \in 1..Len(state.active_market_conditions) :
        ConditionFactor(state.active_market_conditions[i].id, kind) # 1000}

RECURSIVE FactorProduct(_, _)
\* the product of the factors, in twentieths, of the conditions at the indices
FactorProduct(kind, indices) ==
    IF indices = {} THEN 1
    ELSE LET i == CHOOSE j \in indices : TRUE
         IN  (ConditionFactor(state.active_market_conditions[i].id, kind) \div 50)
             * FactorProduct(kind, indices \ {i})

(***************************************************************************)
(* C22: get_action_effectiveness_modifier returns the product of the       *)
(* factors of the active conditions that match the action's kind, clamped  *)
(* to [0.5, 2.0] (to the thousandth): 1.0 when none matches, and 1.5 for   *)
(* Fundraise under a single BullMarket.                                    *)
(***************************************************************************)
C22_ClampedProduct ==
    ret.cmd = "get_action_effectiveness_modifier" =>
        LET m == Matching(obs.input.kind)
            p == FactorProduct(obs.input.kind, m)
            d == Pow20(Cardinality(m))
        IN  /\ obs.output \in 500..2000
            /\ IF p >= 2 * d THEN obs.output = 2000
               ELSE IF 2 * p <= d THEN obs.output = 500
               ELSE obs.output * d <= 1000 * p /\ 1000 * p < (obs.output + 1) * d
            /\ m = {} => obs.output = 1000
            /\ (/\ obs.input.kind = "Fundraise"
                /\ Len(state.active_market_conditions) = 1
                /\ state.active_market_conditions[1].id = "BullMarket") => obs.output = 1500

\* three conditions that all raise Fundraise: 1.5 * 1.25 * 1.2 = 2.25, returned as 2.0
C22_Witness ==
    /\ ret.cmd = "get_action_effectiveness_modifier"
    /\ obs.input.kind = "Fundraise"
    /\ {state.active_market_conditions[i].id : i \in 1..Len(state.active_market_conditions)}
           = {"BullMarket", "TechBoom", "EconomicStimulus"}
    /\ obs.output = 2000

\* the newest n elements of a sequence
Newest(seq, n) == SubSeq(seq, Max(1, Len(seq) - n + 1), Len(seq))

(***************************************************************************)
(* C23: after every accepted turn action_history holds at most 12 entries: *)
(* the log before the turn with the turn's (week, actions) record added at *)
(* the end, cut down to its newest 12 entries.                             *)
(***************************************************************************)
C23_ActionHistoryBounded ==
    AcceptedTurn =>
        /\ Len(state.action_history) <= 12
        /\ state.action_history =
               Newest(Append(pre.action_history, <<pre.week, obs.actions>>), 12)
        /\ \A i \in 1..(Len(state.action_history) - 1) :
               state.action_history[i][1] < state.action_history[i + 1][1]

\* a turn taken with a full log: the entry of the oldest week is gone
C23_Witness ==
    /\ AcceptedTurn
    /\ Len(pre.action_history) = 12
    /\ Len(state.action_history) = 12
    /\ Head(state.action_history)[1] = Head(pre.action_history)[1] + 1
    /\ state.action_history[12] = <<pre.week, obs.actions>>

\* runway_months (thousandths) is bank / burn to the thousandth; for a burn
\* above two million the fraction is taken against burn in thousands
IsBankOverBurn(runway, bank, burn) ==
    IF burn <= 2000000
    THEN /\ runway \div 1000 = bank \div burn
         /\ (runway % 1000) * burn <= (bank % burn) * 1000
         /\ (bank % burn) * 1000 < ((runway % 1000) + 1) * burn
    ELSE runway - ((bank \div burn) * 1000 + (bank % burn) \div (burn \div 1000)) \in -1..1

C25_BreakRestoresMorale ==
    (/\ AcceptedTurn
     /\ obs.actions = <<Act("TakeBreak", "", 0)>>
     /\ pre.morale + 15000 <= 100000
     /\ check_compounding_effects(AfterActions(pre, obs.actions, obs.draw), 12) = <<>>) =>
        /\ AfterActions(pre, obs.actions, obs.draw).morale = pre.morale + 15000
        /\ state.morale = pre.morale + 14500
        /\ pre.week = 0 => state.morale = 94500

\* a break taken later in the game from a morale other than the starting 80
C25_Witness ==
    /\ AcceptedTurn
    /\ obs.actions = <<Act("TakeBreak", "", 0)>>
    /\ pre.week > 0
    /\ pre.morale < 80000
    /\ state.morale = pre.morale + 14500

(***************************************************************************)
(* C26: resolving ShipFeature(Quick) on a state with wau = 100 leaves a    *)
(* wau within [101.5, 104.5], whatever the draw of the boost.              *)
(***************************************************************************)
C26_QuickShipWauInRange ==
    (/\ ret.cmd = "resolve_action"
     /\ obs.input = Act("ShipFeature", "Quick", 0)
     /\ pre.wau = 100) =>
        /\ 1000 * state.wau >= 101500
        /\ 1000 * state.wau <= 104500

(***************************************************************************)
(* C27: a new IndieBootstrap game is at week 0 with bank 50000, burn 8000, *)
(* runway_months 6.25, focus_slots 3, morale 80 and tech_debt 10.          *)
(***************************************************************************)
C27_NewIndieGame ==
    (ret.cmd = "new_game" /\ state.difficulty = "IndieBootstrap") =>
        /\ state.week = 0
        /\ state.bank = 50000
        /\ state.burn = 8000
        /\ state.runway_months = 6250
        /\ state.focus_slots = 3
        /\ state.morale = 80000
        /\ state.tech_debt = 10000

C27_Witness ==
    /\ ret.cmd = "new_game"
    /\ state = new_game("indie")
    /\ state.difficulty = "IndieBootstrap"
    /\ 8 * state.runway_months = 50000

(***************************************************************************)
(* C28: Fundraise draws its success with probability                       *)
(* 0.3 + reputation / 200 + momentum / 100 (0.55 for reputation 50 and     *)
(* momentum 0) clamped to [0, 0.8]; on success bank rises by the target    *)
(* and founder_equity falls by target / 5,000,000 * 20 with morale         *)
(* unchanged, on failure morale falls by 10 with bank and founder_equity   *)
(* unchanged.                                                              *)
(***************************************************************************)
Raised == state.bank # pre.bank

C28_WitnessRaised ==
    /\ ret.cmd = "resolve_action"
    /\ obs.input = Act("Fundraise", "", 500000)
    /\ pre.reputation = 50000 /\ pre.momentum = 0
    /\ state.bank = pre.bank + 500000
    /\ state.founder_equity = 98000

(***************************************************************************)
(* C29: a weekly event pass puts on cooldown only the events it returns:   *)
(* an event that qualified but was discarded by the cap of 2 has no        *)
(* cooldown set and stays eligible for the next pass.                      *)
(***************************************************************************)
C29_DiscardedStaysEligible ==
    AcceptedTurn =>
        \A id \in SeqToSet(obs.qualified) \ EmittedIds(ret.events) :
            can_trigger_event(state.event_cooldowns, id)

(***************************************************************************)
(* C30: an action a turn reports as newly unlocked has its key in the      *)
(* unlocked_actions of the returned state, so that a later turn submitting *)
(* it is not rejected as locked.                                           *)
(***************************************************************************)
\* TurnResult.unlocked_actions of the last turn: check_unlocks on the state of
\* lib.rs:144, which differs from the state the gates saw in no field it reads
ReportedUnlocks == check_unlocks(BeforeGates(pre, obs.actions, obs.draw))

C30_ReportedUnlocksStored ==
    AcceptedTurn => SeqToSet(ReportedUnlocks) \subseteq SeqToSet(state.unlocked_actions)

(***************************************************************************)
(* C31: an accepted turn appends at most one new market condition to       *)
(* active_market_conditions.                                               *)
(***************************************************************************)
C31_AtMostOneNewCondition ==
    AcceptedTurn =>
        Len(state.active_market_conditions) <= Len(pre.active_market_conditions) + 1

(***************************************************************************)
(* C32: the total focus cost take_turn compares with focus_slots is the    *)
(* arithmetic sum of the submitted costs for lists of any length: the      *)
(* 8-bit accumulation neither wraps nor aborts, and every accepted turn    *)
(* has a true total focus cost of at most focus_slots.                     *)
(***************************************************************************)
C32_FocusSumIsExact ==
    ret.cmd = "take_turn" =>
        /\ ret.status # "panicked"
        /\ ret.status = "ok" => /\ total_focus(obs.actions) = obs.true_focus
                                /\ obs.true_focus <= pre.focus_slots

(***************************************************************************)
(* C33: once the player has applied the 'Accept the Offer' choice of the   *)
(* acquisition_offer dilemma, the game is over: check_game_status no       *)
(* longer reports 'playing'.                                               *)
(***************************************************************************)
C33_AcceptedOfferEndsGame ==
    (/\ ret.cmd = "apply_event_choice" /\ ret.status = "ok"
     /\ ret.resolved = {"acquisition_offer"}
     /\ obs.choice.index = 0) =>
        check_game_status(state) # "playing"

(***************************************************************************)
(* C34: check_game_status reports 'victory' whenever streak_weeks >= 12,   *)
(* even if a defeat condition holds as well, and otherwise the first       *)
(* defeat reason that holds in the order out_of_money, burnout,            *)
(* reputation.                                                             *)
(***************************************************************************)
Broke == state.bank <= 0 \/ state.runway_months <= 0

C34_VictoryThenDefeatOrder ==
    ret.cmd = "check_game_status" =>
        IF state.escape_velocity_progress.streak_weeks >= 12 THEN ret.status = "victory"
        ELSE IF Broke THEN ret.status = "defeat:out_of_money"
        ELSE IF state.morale <= 0 THEN ret.status = "defeat:burnout"
        ELSE IF state.reputation <= 10000 THEN ret.status = "defeat:reputation"
        ELSE ret.status = "playing"

\* a won game that is out of money, burnt out and without reputation
C34_Witness ==
    /\ ret.cmd = "check_game_status" /\ ret.status = "victory"
    /\ state.escape_velocity_progress.streak_weeks = 12
    /\ Broke /\ state.morale <= 0 /\ state.reputation <= 10000

(***************************************************************************)
(* C35: founder_health_crisis is emitted only when at least four weekly    *)
(* snapshots exist and each of the four most recent has morale < 30.       *)
(***************************************************************************)
C35_CrisisAfterFourLowWeeks ==
    (AcceptedTurn /\ "founder_health_crisis" \in EmittedIds(ret.events)) =>
        /\ Len(state.history) >= 4
        /\ \A i \in (Len(state.history) - 3)..Len(state.history) :
               state.history[i].morale < 30000

\* the crisis emitted in a game whose earlier snapshots had a higher morale
C35_Witness ==
    /\ AcceptedTurn
    /\ "founder_health_crisis" \in EmittedIds(ret.events)
    /\ Len(state.history) > 4
    /\ state.history[Len(state.history) - 4].morale >= 30000

(***************************************************************************)
(* C36: viral_moment_gone_wrong, the follow-up event viral_moment          *)
(* declares, is emitted only in a game in which viral_moment was emitted   *)
(* at an earlier week.                                                     *)
(***************************************************************************)
C36_FollowUpAfterViralMoment ==
    (ret.cmd \in {"check_for_events", "take_turn"} /\ ret.status = "ok"
     /\ "viral_moment_gone_wrong" \in EmittedIds(ret.events)) =>
        /\ "viral_moment" \in DOMAIN obs.prev_emit
        /\ obs.prev_emit["viral_moment"] < state.week

C38_DerivedMetricsStable ==
    (ret.cmd \in {"take_turn", "apply_event_choice"} /\ ret.status = "ok") =>
        /\ update_derived_metrics(state).momentum = state.momentum
        /\ update_derived_metrics(state) = state

(***************************************************************************)
(* C39: focus_slots is at least 2 in every state reached from a new game:  *)
(* no turn changes it, and the 'Focus' effect of an event choice never     *)
(* leaves it below 2.                                                      *)
(***************************************************************************)
C39_FocusAtLeastTwo ==
    /\ state.focus_slots >= 2
    /\ ret.cmd = "take_turn" => state.focus_slots = pre.focus_slots

\* the first choice of big_logo_signs (Reputation up, Focus -1) applied to a
\* game that had 2 focus slots left
C39_Witness ==
    /\ ret.cmd = "apply_event_choice" /\ ret.status = "ok"
    /\ "big_logo_signs" \in ret.resolved
    /\ obs.choice.index = 0
    /\ pre.focus_slots = 2
    /\ state.reputation > pre.reputation
    /\ state.focus_slots = 2

(***************************************************************************)
(* C40: for a three-snapshot history whose morale values are 80, 85, 90    *)
(* (oldest to newest), count_consecutive_weeks with lookback 10 and        *)
(* predicate morale > 75 returns 2.                                        *)
(***************************************************************************)
TestHistoryCounted ==
    /\ ret.cmd = "count_consecutive_weeks"
    /\ obs.history_weeks = 10
    /\ [i \in 1..Len(state.history) |-> state.history[i].morale] = <<80000, 85000, 90000>>

====
